---- MODULE Spec2Model ----
(***************************************************************************)
(* Dual-protocol mail access layer of Outlook-Mail-Manager: the OAuth2     *)
(* token cache and refresher (app.go, token_service.go), the transport     *)
(* selector with REST -> IMAP fallback (app.go) and the IMAP connection    *)
(* pool (imap_service.go).                                                 *)
(*                                                                         *)
(* Time is counted in minutes.  Every exported App method is one action;   *)
(* the calls it makes are operators that map a program state to the set of *)
(* states the call can end in, one per outcome of the remote parties       *)
(* (token endpoint, REST API, IMAP server).  A handler leaves what it did  *)
(* and what it returned in `last`; Return hands that to the caller, and    *)
(* the next request is served after it.                                    *)
(***************************************************************************)
EXTENDS Integers, Sequences, FiniteSets, TLC

\* ---------------------------------------------------------------- bounds
MaxTime == 6
MaxIssued == 3
MaxConns == 2

Accounts == {1}

\* ------------------------------------------------------ program constants
Margin == 1
PoolFreshness == 5
PageSize == 20

\* ------------------------------------------- inputs and remote outcomes
ExpiresInChoices == {7}
RotatedChoices == {"rt1"}
RefreshErrors == {"invalid_grant", "request failed"}
RestOutcomes == {"ok", "unauthorized", "api error"}
ConnectOutcomes == {"ok", "connect failed", "greeting failed", "auth failed"}
CmdOutcomes == {"ok", "no", "timeout"}
ExistsChoices == {-1, 0, 25}
Pages == {0, 2}
\* LIST answers: the folder names <<"Drafts">> and <<"INBOX">>.
FolderListings == {<<<<68, 114, 97, 102, 116, 115>>>>, <<<<73, 78, 66, 79, 88>>>>}

\* ------------------------------------------------------------ data model
NoToken == [id |-> 0, scope |-> "none"]
NilTime == -1
NoCache == [present |-> FALSE, token |-> NoToken, expiresAt |-> 0]
NoPooled == [present |-> FALSE, client |-> 0, token |-> NoToken, lastUsed |-> 0, createdAt |-> 0]
NewAccount == [AccessToken |-> NoToken, TokenExpiresAt |-> NilTime, RefreshToken |-> "rt0",
               Status |-> "active", LastError |-> "", Protocol |-> ""]
EmptyLog == [tokenReqs |-> <<>>, endpointCalls |-> <<>>, refreshes |-> <<>>, rest |-> <<>>,
             cleared |-> 0, imap |-> <<>>, emitted |-> 0, sockets |-> <<>>]
NoOp == [op |-> "none", acct |-> 0, marker0 |-> "", result |-> "none", at |-> 0, log |-> EmptyLog,
         imapTokens0 |-> NoCache, tokens0 |-> NoCache, args |-> <<>>]

\* One IMAPClient.command in progress, seen from readUntilTag: the tag, the
\* lines read so far, the number of Reads that delivered data (counted
\* modulo 2) and what the call returned.
IdleReader == [phase |-> "idle", tagNum |-> 0, result |-> <<>>, reads |-> 0, err |-> ""]

\* procs, poolMu and wire describe goroutines that run at the same time: the
\* position and locals of each, the holder of IMAPService.poolMu (0: free) and,
\* per connection, the tag counter and the commands written on it.  reader is
\* the read loop of one command.
VARIABLES now, tokens, imapTokens, accounts, pool, conns, issued, events, last,
          procs, poolMu, wire, reader

sequential == <<now, tokens, imapTokens, accounts, pool, conns, issued, events, last>>

vars == <<now, tokens, imapTokens, accounts, pool, conns, issued, events, last,
          procs, poolMu, wire, reader>>

\* The mutable program state as one value, threaded through the calls of a handler.
Cur == [tokens |-> tokens, imapTokens |-> imapTokens, accounts |-> accounts, pool |-> pool,
        conns |-> conns, issued |-> issued, events |-> events, log |-> EmptyLog]

\* --------------------------------------------------------- AccountService
\* An UpdateToken that keeps the old refresh token.
UpdateTokenKeepsSecret(s, a, accessToken, refreshToken, expiresAt) ==
  [s EXCEPT !.accounts[a].AccessToken = accessToken,
            !.accounts[a].TokenExpiresAt = expiresAt,
            !.accounts[a].Status = "active",
            !.accounts[a].LastError = ""]

\* token_expires_at is written with Format(time.RFC3339) and read back with
\* time.Parse(time.RFC3339, ..), which keeps whole seconds and the zone offset:
\* on the whole minutes counted here the stored time is the time given.
UpdateToken(s, a, accessToken, refreshToken, expiresAt) ==
  [s EXCEPT !.accounts[a].AccessToken = accessToken,
            !.accounts[a].RefreshToken = refreshToken,
            !.accounts[a].TokenExpiresAt = expiresAt,
            !.accounts[a].Status = "active",
            !.accounts[a].LastError = ""]

\* An UpdateStatus whose write is lost.
UpdateStatusLost(s, a, status, lastError) == s

UpdateStatus(s, a, status, lastError) ==
  [s EXCEPT !.accounts[a].Status = status, !.accounts[a].LastError = lastError]

\* An UpdateProtocol whose write is lost.
UpdateProtocolLost(s, a, protocol) == s

UpdateProtocol(s, a, protocol) ==
  [s EXCEPT !.accounts[a].Protocol = protocol]

\* ----------------------------------------------------------- token_service
\* A tenant fallback taken on every failure.
AnyRefreshError(err) == err # ""

\* strings.Contains(err.Error(), "invalid_grant") on "<error>: <description>"
HasInvalidGrant(err) == err = "invalid_grant"

\* One POST to https://login.microsoftonline.com/<tenant>/oauth2/v2.0/token.
refreshWithEndpoint(s, scope, tenant) ==
  LET called(out, tok, rt, e) ==
        [s EXCEPT !.log.endpointCalls =
           Append(@, [tenant |-> tenant, scope |-> scope, out |-> out,
                      AccessToken |-> tok, RefreshToken |-> rt, ExpiresIn |-> e])]
      fail == {[s |-> called(e, NoToken, "", 0),
                ok |-> FALSE, err |-> e, AccessToken |-> NoToken, RefreshToken |-> "", ExpiresIn |-> 0]
               : e \in RefreshErrors}
      succ == IF s.issued < MaxIssued
              THEN {[s |-> [called("ok", [id |-> s.issued + 1, scope |-> scope], rt, e)
                              EXCEPT !.issued = @ + 1],
                     ok |-> TRUE, err |-> "", AccessToken |-> [id |-> s.issued + 1, scope |-> scope],
                     RefreshToken |-> rt, ExpiresIn |-> e]
                    : e \in ExpiresInChoices, rt \in RotatedChoices}
              ELSE {}
  IN fail \cup succ

RefreshAccessToken(s) ==
  UNION { IF ~r.ok /\ HasInvalidGrant(r.err)
          THEN refreshWithEndpoint(r.s, "rest", "common")
          ELSE {r}
          : r \in refreshWithEndpoint(s, "rest", "consumers") }

RefreshAccessTokenForIMAP(s) ==
  UNION { IF ~r.ok /\ HasInvalidGrant(r.err)
          THEN refreshWithEndpoint(r.s, "imap", "common")
          ELSE {r}
          : r \in refreshWithEndpoint(s, "imap", "consumers") }

\* ------------------------------------------------------- App: token cache
\* A margin check that lets an entry through in its last usable minute.
UsableInclusive(expiresAt) == expiresAt >= now + Margin

\* cached.expiresAt.After(time.Now().Add(time.Minute))
Usable(expiresAt) == expiresAt > now + Margin

\* A getToken that never looks at the stored token.
PersistedIgnored(account) == FALSE

\* account.AccessToken != "" && account.TokenExpiresAt != nil && ...After(now + 1 minute)
PersistedUsable(account) ==
  /\ account.AccessToken # NoToken
  /\ account.TokenExpiresAt # NilTime
  /\ Usable(account.TokenExpiresAt)

LogTokenReq(s, a, scope, force, s0, src, tok, exp) ==
  [s EXCEPT !.log.tokenReqs = Append(@,
     [scope |-> scope, force |-> force, src |-> src, token |-> tok, expiresAt |-> exp,
      mem0 |-> IF scope = "rest" THEN s0.tokens[a] ELSE s0.imapTokens[a],
      db0 |-> [AccessToken |-> s0.accounts[a].AccessToken, TokenExpiresAt |-> s0.accounts[a].TokenExpiresAt,
               RefreshToken |-> s0.accounts[a].RefreshToken]])]

LogRefresh(s, s0, scope, force, r) ==
  [s EXCEPT !.log.refreshes = Append(@,
     [scope |-> scope, force |-> force, from |-> Len(s0.log.endpointCalls) + 1,
      to |-> Len(s.log.endpointCalls), ret |-> IF r.ok THEN "ok" ELSE r.err])]

getToken(s, a, forceRefresh) ==
  IF ~forceRefresh /\ s.tokens[a].present /\ Usable(s.tokens[a].expiresAt)
  THEN {[s |-> LogTokenReq(s, a, "rest", forceRefresh, s, "memory", s.tokens[a].token, s.tokens[a].expiresAt),
         ok |-> TRUE, token |-> s.tokens[a].token]}
  ELSE
    LET account == s.accounts[a] IN
    IF ~forceRefresh /\ PersistedUsable(account)
    THEN {[s |-> LogTokenReq(
                   [s EXCEPT !.tokens[a] = [present |-> TRUE, token |-> account.AccessToken,
                                            expiresAt |-> account.TokenExpiresAt]],
                   a, "rest", forceRefresh, s, "persisted", account.AccessToken, account.TokenExpiresAt),
           ok |-> TRUE, token |-> account.AccessToken]}
    ELSE
      { IF ~r.ok
        THEN [s |-> LogTokenReq(LogRefresh(UpdateStatus(r.s, a, "error", r.err), s, "rest", forceRefresh, r),
                                a, "rest", forceRefresh, s, "error", NoToken, 0),
              ok |-> FALSE, token |-> NoToken]
        ELSE LET expiresAt == now + r.ExpiresIn
                 s1 == UpdateToken(r.s, a, r.AccessToken, r.RefreshToken, expiresAt)
                 s2 == UpdateStatus(s1, a, "active", "")
                 s3 == [s2 EXCEPT !.tokens[a] = [present |-> TRUE, token |-> r.AccessToken,
                                                 expiresAt |-> expiresAt]]
             IN [s |-> LogTokenReq(LogRefresh(s3, s, "rest", forceRefresh, r),
                                   a, "rest", forceRefresh, s, "refresh", r.AccessToken, expiresAt),
                 ok |-> TRUE, token |-> r.AccessToken]
        : r \in RefreshAccessToken(s) }

ensureValidToken(s, a) == getToken(s, a, FALSE)

\* A clearTokenCache that drops the REST entry only.
clearRESTTokenOnly(s, a) ==
  [s EXCEPT !.tokens[a] = NoCache, !.log.cleared = @ + 1]

clearTokenCache(s, a) ==
  [s EXCEPT !.tokens[a] = NoCache, !.imapTokens[a] = NoCache, !.log.cleared = @ + 1]

getIMAPToken(s, a, forceRefresh) ==
  IF ~forceRefresh /\ s.imapTokens[a].present /\ Usable(s.imapTokens[a].expiresAt)
  THEN {[s |-> LogTokenReq(s, a, "imap", forceRefresh, s, "memory", s.imapTokens[a].token,
                           s.imapTokens[a].expiresAt),
         ok |-> TRUE, token |-> s.imapTokens[a].token]}
  ELSE
    { IF ~r.ok
      THEN [s |-> LogTokenReq(LogRefresh(UpdateStatus(r.s, a, "error", r.err), s, "imap", forceRefresh, r),
                              a, "imap", forceRefresh, s, "error", NoToken, 0),
            ok |-> FALSE, token |-> NoToken]
      ELSE LET expiresAt == now + r.ExpiresIn
               s1 == UpdateToken(r.s, a, r.AccessToken, r.RefreshToken, expiresAt)
               s2 == UpdateStatus(s1, a, "active", "")
               s3 == [s2 EXCEPT !.imapTokens[a] = [present |-> TRUE, token |-> r.AccessToken,
                                                   expiresAt |-> expiresAt]]
           IN [s |-> LogTokenReq(LogRefresh(s3, s, "imap", forceRefresh, r),
                                 a, "imap", forceRefresh, s, "refresh", r.AccessToken, expiresAt),
               ok |-> TRUE, token |-> r.AccessToken]
      : r \in RefreshAccessTokenForIMAP(s) }

\* ------------------------------------------------- IMAPService: the pool
LogIMAP(s, e) == [s EXCEPT !.log.imap = Append(@, e)]

IMAPEvent(ev, conn, tok, out) ==
  [ev |-> ev, conn |-> conn, token |-> tok, out |-> out, pooled |-> NoPooled, args |-> <<>>]

\* c.command(cmd) with the numbers formatted into cmd: write the tagged
\* command, then readUntilTag.
commandArgs(s, c, cmd, args) ==
  { LogIMAP([s EXCEPT !.conns[c].readFailed = @ \/ (o = "timeout")],
            [IMAPEvent(cmd, c, NoToken, o) EXCEPT !.args = args])
    : o \in CmdOutcomes }

command(s, c, cmd) == commandArgs(s, c, cmd, <<>>)

\* A replaced client that is dropped without being closed.
CloseForgotten(s, c) == LogIMAP(s, IMAPEvent("close", c, NoToken, "ok"))

\* IMAPClient.Close: LOGOUT (result ignored), then conn.Close().
Close(s, c) ==
  LogIMAP([s EXCEPT !.conns[c].closeLog = @ \o <<"LOGOUT", "close">>, !.conns[c].open = FALSE],
          IMAPEvent("close", c, NoToken, "ok"))

NewConn(a, tok, authed) ==
  [owner |-> a, open |-> TRUE, authed |-> authed, authTok |-> tok, closeLog |-> <<>>,
   readFailed |-> FALSE]

\* A client returned although AUTHENTICATE was refused.
AuthUnchecked(o) == o \in {"ok", "auth failed"}

\* err == nil after client.command("AUTHENTICATE XOAUTH2 ...")
AuthSucceeded(o) == o = "ok"

\* newIMAPClient: TLS dial, greeting read, AUTHENTICATE XOAUTH2.  A failure
\* after the dial closes the socket and returns no client; conns holds the
\* clients that were returned, log.sockets what happened to each socket.
newIMAPClient(s, a, accessToken) ==
  LET id == Len(s.conns) + 1
      dialed(o) == o # "connect failed"
      greeted(o) == dialed(o) /\ o # "greeting failed"
      returned(o) == greeted(o) /\ AuthSucceeded(o)
      socket(o) == [dialed |-> dialed(o), greeted |-> greeted(o), authed |-> o = "ok",
                    closed |-> dialed(o) /\ ~returned(o),
                    client |-> IF returned(o) THEN id ELSE 0]
      logged(s1, o) ==
        LogIMAP([s1 EXCEPT !.log.sockets = Append(@, socket(o))],
                IMAPEvent("create", IF returned(o) THEN id ELSE 0, accessToken, o))
  IN {[s |-> logged(s, o), ok |-> FALSE, client |-> 0]
      : o \in {x \in ConnectOutcomes : ~returned(x)}}
     \cup
     (IF Len(s.conns) < MaxConns
      THEN {[s |-> logged([s EXCEPT !.conns = Append(@, NewConn(a, accessToken, o = "ok"))], o),
             ok |-> TRUE, client |-> id]
            : o \in {x \in ConnectOutcomes : returned(x)}}
      ELSE {})

\* A pool that never reuses an entry that has been idle for a minute.
PoolHitSameMinute(pc, accessToken) == now - pc.lastUsed < 1 /\ pc.token = accessToken

\* A pool that still reuses an entry last used exactly 5 minutes ago.
PoolHitInclusive(pc, accessToken) == now - pc.lastUsed <= PoolFreshness /\ pc.token = accessToken

\* A pool that does not compare the token.
PoolHitAnyToken(pc, accessToken) == now - pc.lastUsed < PoolFreshness

\* The branch of getClient that reuses the pooled entry.
PoolHit(pc, accessToken) ==
  LET age == now - pc.lastUsed
      tokenMatch == pc.token = accessToken
  IN age < PoolFreshness /\ tokenMatch

getClient(s, a, accessToken) ==
  LET s0 == LogIMAP(s, [ev |-> "acquire", conn |-> s.pool[a].client, token |-> accessToken,
                        out |-> IF s.pool[a].present THEN "pooled" ELSE "empty",
                        pooled |-> s.pool[a], args |-> <<>>])
      create(s1) ==
        { IF ~n.ok
          THEN [s |-> n.s, ok |-> FALSE, client |-> 0]
          ELSE [s |-> [n.s EXCEPT !.pool[a] = [present |-> TRUE, client |-> n.client,
                                              token |-> accessToken, lastUsed |-> now,
                                              createdAt |-> now]],
                ok |-> TRUE, client |-> n.client]
          : n \in newIMAPClient(s1, a, accessToken) }
  IN IF s.pool[a].present
     THEN IF PoolHit(s.pool[a], accessToken)
          THEN {[s |-> LogIMAP([s0 EXCEPT !.pool[a].lastUsed = now],
                               IMAPEvent("reuse", s.pool[a].client, accessToken, "ok")),
                 ok |-> TRUE, client |-> s.pool[a].client]}
          ELSE create(LogIMAP([Close(s0, s.pool[a].client) EXCEPT !.pool[a] = NoPooled],
                              IMAPEvent("remove", s.pool[a].client, NoToken, "ok")))
     ELSE create(s0)

\* --------------------------------------------- IMAPService: operations
\* Strings are sequences of code points.  strings.ToLower on ASCII letters.
ToLowerASCII(s) == [i \in 1..Len(s) |-> IF s[i] \in 65..90 THEN s[i] + 32 ELSE s[i]]

\* m[key] of a Go map given as a set of <<key, value>> pairs.
HasKey(m, k) == \E r \in m : r[1] = k
Lookup(m, k) == (CHOOSE r \in m : r[1] = k)[2]

\* imapFolderMap: REST folder id -> IMAP name
imapFolderMap == {
    \* "inbox" -> "INBOX"
    <<<<105, 110, 98, 111, 120>>,
      <<73, 78, 66, 79, 88>>>>,
    \* "junkemail" -> "Junk"
    <<<<106, 117, 110, 107, 101, 109, 97, 105, 108>>,
      <<74, 117, 110, 107>>>>,
    \* "drafts" -> "Drafts"
    <<<<100, 114, 97, 102, 116, 115>>,
      <<68, 114, 97, 102, 116, 115>>>>,
    \* "sentitems" -> "Sent"
    <<<<115, 101, 110, 116, 105, 116, 101, 109, 115>>,
      <<83, 101, 110, 116>>>>,
    \* "deleteditems" -> "Deleted"
    <<<<100, 101, 108, 101, 116, 101, 100, 105, 116, 101, 109, 115>>,
      <<68, 101, 108, 101, 116, 101, 100>>>>,
    \* "outbox" -> "Outbox"
    <<<<111, 117, 116, 98, 111, 120>>,
      <<79, 117, 116, 98, 111, 120>>>>,
    \* "notes" -> "Notes"
    <<<<110, 111, 116, 101, 115>>,
      <<78, 111, 116, 101, 115>>>>,
    \* "archive" -> "Archive"
    <<<<97, 114, 99, 104, 105, 118, 101>>,
      <<65, 114, 99, 104, 105, 118, 101>>>>
  }

\* reverseImapFolderMap: IMAP name -> REST folder id
reverseImapFolderMap == {
    \* "INBOX" -> "inbox"
    <<<<73, 78, 66, 79, 88>>,
      <<105, 110, 98, 111, 120>>>>,
    \* "Junk" -> "junkemail"
    <<<<74, 117, 110, 107>>,
      <<106, 117, 110, 107, 101, 109, 97, 105, 108>>>>,
    \* "Junk E-mail" -> "junkemail"
    <<<<74, 117, 110, 107, 32, 69, 45, 109, 97, 105, 108>>,
      <<106, 117, 110, 107, 101, 109, 97, 105, 108>>>>,
    \* "Junk E-Mail" -> "junkemail"
    <<<<74, 117, 110, 107, 32, 69, 45, 77, 97, 105, 108>>,
      <<106, 117, 110, 107, 101, 109, 97, 105, 108>>>>,
    \* "&Xn9USpCuTvY-" -> "junkemail"
    <<<<38, 88, 110, 57, 85, 83, 112, 67, 117, 84, 118, 89, 45>>,
      <<106, 117, 110, 107, 101, 109, 97, 105, 108>>>>,
    \* "Drafts" -> "drafts"
    <<<<68, 114, 97, 102, 116, 115>>,
      <<100, 114, 97, 102, 116, 115>>>>,
    \* "&g0l6P3ux-" -> "drafts"
    <<<<38, 103, 48, 108, 54, 80, 51, 117, 120, 45>>,
      <<100, 114, 97, 102, 116, 115>>>>,
    \* "Sent" -> "sentitems"
    <<<<83, 101, 110, 116>>,
      <<115, 101, 110, 116, 105, 116, 101, 109, 115>>>>,
    \* "Sent Items" -> "sentitems"
    <<<<83, 101, 110, 116, 32, 73, 116, 101, 109, 115>>,
      <<115, 101, 110, 116, 105, 116, 101, 109, 115>>>>,
    \* "&UXZO1mWHTvZZOQ-" -> "sentitems"
    <<<<38, 85, 88, 90, 79, 49, 109, 87, 72, 84, 118, 90, 90, 79, 81, 45>>,
      <<115, 101, 110, 116, 105, 116, 101, 109, 115>>>>,
    \* "Deleted" -> "deleteditems"
    <<<<68, 101, 108, 101, 116, 101, 100>>,
      <<100, 101, 108, 101, 116, 101, 100, 105, 116, 101, 109, 115>>>>,
    \* "Deleted Items" -> "deleteditems"
    <<<<68, 101, 108, 101, 116, 101, 100, 32, 73, 116, 101, 109, 115>>,
      <<100, 101, 108, 101, 116, 101, 100, 105, 116, 101, 109, 115>>>>,
    \* "&V4NXPpCuTvY-" -> "deleteditems"
    <<<<38, 86, 52, 78, 88, 80, 112, 67, 117, 84, 118, 89, 45>>,
      <<100, 101, 108, 101, 116, 101, 100, 105, 116, 101, 109, 115>>>>,
    \* "Outbox" -> "outbox"
    <<<<79, 117, 116, 98, 111, 120>>,
      <<111, 117, 116, 98, 111, 120>>>>,
    \* "Notes" -> "notes"
    <<<<78, 111, 116, 101, 115>>,
      <<110, 111, 116, 101, 115>>>>,
    \* "Archive" -> "archive"
    <<<<65, 114, 99, 104, 105, 118, 101>>,
      <<97, 114, 99, 104, 105, 118, 101>>>>,
    \* "&W1hoYw-" -> "archive"
    <<<<38, 87, 49, 104, 111, 89, 119, 45>>,
      <<97, 114, 99, 104, 105, 118, 101>>>>
  }

\* folderDisplayNames: REST folder id -> display name
folderDisplayNames == {
    \* "inbox" -> "收件箱"
    <<<<105, 110, 98, 111, 120>>,
      <<25910, 20214, 31665>>>>,
    \* "junkemail" -> "垃圾邮件"
    <<<<106, 117, 110, 107, 101, 109, 97, 105, 108>>,
      <<22403, 22334, 37038, 20214>>>>,
    \* "drafts" -> "草稿"
    <<<<100, 114, 97, 102, 116, 115>>,
      <<33609, 31295>>>>,
    \* "sentitems" -> "已发送"
    <<<<115, 101, 110, 116, 105, 116, 101, 109, 115>>,
      <<24050, 21457, 36865>>>>,
    \* "deleteditems" -> "已删除"
    <<<<100, 101, 108, 101, 116, 101, 100, 105, 116, 101, 109, 115>>,
      <<24050, 21024, 38500>>>>,
    \* "outbox" -> "发件箱"
    <<<<111, 117, 116, 98, 111, 120>>,
      <<21457, 20214, 31665>>>>,
    \* "notes" -> "便笺"
    <<<<110, 111, 116, 101, 115>>,
      <<20415, 31546>>>>,
    \* "archive" -> "存档"
    <<<<97, 114, 99, 104, 105, 118, 101>>,
      <<23384, 26723>>>>
  }

MapFolderID(folderID) ==
  LET lower == ToLowerASCII(folderID)
  IN IF HasKey(imapFolderMap, lower) THEN Lookup(imapFolderMap, lower) ELSE folderID

\* Exact match, then the first key that is equal in lower case (all such
\* keys carry the same id), else the name in lower case.
getRestAPIFolderID(imapName) ==
  IF HasKey(reverseImapFolderMap, imapName) THEN Lookup(reverseImapFolderMap, imapName)
  ELSE LET lowerName == ToLowerASCII(imapName)
           hits == {r \in reverseImapFolderMap : ToLowerASCII(r[1]) = lowerName}
       IN IF hits # {} THEN (CHOOSE r \in hits : TRUE)[2] ELSE lowerName

\* A target set that also counts the drafts.
targetFoldersWithDrafts == {<<105, 110, 98, 111, 120>>, <<106, 117, 110, 107, 101, 109, 97, 105, 108>>, <<100, 114, 97, 102, 116, 115>>}

\* targetFolders := map[string]bool{"inbox": true, "junkemail": true}
targetFolders == {<<105, 110, 98, 111, 120>>, <<106, 117, 110, 107, 101, 109, 97, 105, 108>>}

\* The STATUS loop of GetMailFolders: a failed STATUS is skipped.
RECURSIVE statusLoop(_, _, _)
statusLoop(s, c, names) ==
  IF names = <<>> THEN {s}
  ELSE IF getRestAPIFolderID(Head(names)) \notin targetFolders
       THEN statusLoop(s, c, Tail(names))
       ELSE UNION { statusLoop(s1, c, Tail(names)) : s1 \in command(s, c, "STATUS") }

LastOut(s) == s.log.imap[Len(s.log.imap)].out

IMAPGetMailFolders(s, a, accessToken) ==
  UNION { IF ~g.ok
          THEN {[s |-> g.s, ok |-> FALSE]}
          ELSE UNION { IF LastOut(l) # "ok"
                       THEN {[s |-> l, ok |-> FALSE]}
                       ELSE UNION { {[s |-> s2, ok |-> TRUE] : s2 \in statusLoop(l, g.client, names)}
                                    : names \in FolderListings }
                       : l \in command(g.s, g.client, "LIST") }
          : g \in getClient(s, a, accessToken) }

\* A range whose start is not clamped to 1.
FetchRangeUnclamped(total, skip, top) ==
  IF total - skip < 1 THEN <<0, 0>> ELSE <<total - skip - top + 1, total - skip>>

\* A range that starts one message too early.
FetchRangeOverlapping(total, skip, top) ==
  LET start == total - skip - top
      end == total - skip
  IN IF end < 1 THEN <<0, 0>> ELSE <<IF start < 1 THEN 1 ELSE start, end>>

\* start/end of the FETCH range; <<0, 0>> when nothing is fetched.
FetchRange(total, skip, top) ==
  LET start == total - skip - top + 1
      end == total - skip
  IN IF end < 1 THEN <<0, 0>> ELSE <<IF start < 1 THEN 1 ELSE start, end>>

\* GetMessages where the SELECT response announces one of `totals` messages
\* (-1: no EXISTS line).
IMAPGetMessagesOf(s, a, accessToken, skip, top, totals) ==
  UNION { IF ~g.ok
          THEN {[s |-> g.s, ok |-> FALSE]}
          ELSE UNION { IF LastOut(l) # "ok"
                       THEN {[s |-> l, ok |-> FALSE]}
                       ELSE UNION { IF total < 1 \/ FetchRange(total, skip, top) = <<0, 0>>
                                    THEN {[s |-> l, ok |-> TRUE]}
                                    ELSE {[s |-> f, ok |-> (LastOut(f) = "ok")]
                                          : f \in commandArgs(l, g.client, "FETCH",
                                                              FetchRange(total, skip, top))}
                                    : total \in totals }
                       : l \in command(g.s, g.client, "SELECT") }
          : g \in getClient(s, a, accessToken) }

IMAPGetMessages(s, a, accessToken, skip, top) ==
  IMAPGetMessagesOf(s, a, accessToken, skip, top, ExistsChoices)

\* GetMessage ignores the result of SELECT and always issues UID FETCH.
IMAPGetMessage(s, a, accessToken) ==
  UNION { IF ~g.ok
          THEN {[s |-> g.s, ok |-> FALSE]}
          ELSE UNION { {[s |-> f, ok |-> (LastOut(f) = "ok")] : f \in command(l, g.client, "UID FETCH")}
                       : l \in command(g.s, g.client, "SELECT") }
          : g \in getClient(s, a, accessToken) }

IMAPCall(op, s, a, accessToken, page) ==
  CASE op = "GetMailFolders" -> IMAPGetMailFolders(s, a, accessToken)
    [] op = "GetMessages" -> IMAPGetMessages(s, a, accessToken, page * PageSize, PageSize)
    [] op = "GetMessageDetail" -> IMAPGetMessage(s, a, accessToken)

\* ------------------------------------------------------ GraphService
\* One REST request: 200, 401 ("unauthorized: token expired") or another failure.
graphCall(s) == { [s EXCEPT !.log.rest = Append(@, o)] : o \in RestOutcomes }

LastRest(s) == s.log.rest[Len(s.log.rest)]

\* A retry taken on every REST failure.
AnyRestError(err) == err # "ok"

\* strings.Contains(err.Error(), "unauthorized")
IsUnauthorized(err) == err = "unauthorized"

\* A handler that never reads the marker.
NeverMarked(account) == FALSE

\* account.Protocol == "imap"
MarkedIMAP(account) == account.Protocol = "imap"

\* ------------------------------------------------ App: transport selector
EventsEmit(s, a) == [s EXCEPT !.events[a] = 1, !.log.emitted = @ + 1]

\* ------------------------------------------------------------- actions
Idle == last.op = "none"

\* The call op(args) has finished in state s with the given result.
FinishArgs(op, a, s, result, args) ==
  /\ Idle
  /\ tokens' = s.tokens
  /\ imapTokens' = s.imapTokens
  /\ accounts' = s.accounts
  /\ pool' = s.pool
  /\ conns' = s.conns
  /\ issued' = s.issued
  /\ events' = s.events
  /\ last' = [op |-> op, acct |-> a, marker0 |-> accounts[a].Protocol, result |-> result,
              at |-> now, log |-> s.log, imapTokens0 |-> imapTokens[a], tokens0 |-> tokens[a],
              args |-> args]
  /\ UNCHANGED <<now, procs, poolMu, wire, reader>>

Finish(op, a, s, result) == FinishArgs(op, a, s, result, <<>>)

\* --- exported App methods
\* A check that is content with a cached token.
CheckAccountTokenCached(a) ==
  \E t \in getToken(Cur, a, FALSE) :
    Finish("CheckAccountToken", a, t.s, IF t.ok THEN "valid" ELSE "error")

CheckAccountToken(a) ==
  \E t \in getToken(Cur, a, TRUE) :
    Finish("CheckAccountToken", a, t.s, IF t.ok THEN "valid" ELSE "error")

\* A REST block whose result is thrown away.
restAttemptDiscarded(a) ==
  UNION { IF ~t.ok
          THEN {[s |-> t.s, ok |-> FALSE]}
          ELSE {[s |-> r1, ok |-> FALSE] : r1 \in graphCall(t.s)}
          : t \in ensureValidToken(Cur, a) }

\* The "try REST first" block shared by the four mail handlers:
\* ensureValidToken, REST call, and on "unauthorized" clearTokenCache,
\* getToken(force) and one more REST call.  The states the block can end in,
\* each with whether REST returned a result.
restAttempt(a) ==
  UNION { IF ~t.ok
          THEN {[s |-> t.s, ok |-> FALSE]}
          ELSE UNION { IF LastRest(r1) = "ok"
                       THEN {[s |-> r1, ok |-> TRUE]}
                       ELSE IF IsUnauthorized(LastRest(r1))
                       THEN UNION { IF ~t2.ok
                                    THEN {[s |-> t2.s, ok |-> FALSE]}
                                    ELSE {[s |-> r2, ok |-> (LastRest(r2) = "ok")]
                                          : r2 \in graphCall(t2.s)}
                                    : t2 \in getToken(clearTokenCache(r1, a), a, TRUE) }
                       ELSE {[s |-> r1, ok |-> FALSE]}
                       : r1 \in graphCall(t.s) }
          : t \in ensureValidToken(Cur, a) }

\* The IMAP branch taken when the account is already marked "imap".
imapDirect(op, a, page) ==
  \E t \in getIMAPToken(Cur, a, FALSE) :
    IF ~t.ok
    THEN Finish(op, a, t.s, "error")
    ELSE \E r \in IMAPCall(op, t.s, a, t.token, page) :
           Finish(op, a, r.s, IF r.ok THEN "imap" ELSE "error")

\* A handler that gives up when REST failed.
imapFallbackSkipped(op, s, a, page) == Finish(op, a, s, "error")

\* A fallback that marks the account whatever the IMAP call returned.
imapFallbackMarksAlways(op, s, a, page) ==
  \E t \in getIMAPToken(s, a, FALSE) :
    IF ~t.ok
    THEN Finish(op, a, t.s, "error")
    ELSE \E r \in IMAPCall(op, t.s, a, t.token, page) :
           Finish(op, a, EventsEmit(UpdateProtocol(r.s, a, "imap"), a),
                  IF r.ok THEN "imap" ELSE "error")

\* The fallback after REST failed: IMAP, and on success UpdateProtocol + event.
imapFallback(op, s, a, page) ==
  \E t \in getIMAPToken(s, a, FALSE) :
    IF ~t.ok
    THEN Finish(op, a, t.s, "error")
    ELSE \E r \in IMAPCall(op, t.s, a, t.token, page) :
           IF r.ok
           THEN Finish(op, a, EventsEmit(UpdateProtocol(r.s, a, "imap"), a), "imap")
           ELSE Finish(op, a, r.s, "error")

\* GetMailFolders, GetMessages and GetMessageDetail share one control flow:
\* marked "imap" -> IMAP only; else REST first, then the IMAP fallback.
mailHandler(op, a, page) ==
  IF MarkedIMAP(accounts[a])
  THEN imapDirect(op, a, page)
  ELSE \E r \in restAttempt(a) :
         IF r.ok
         THEN Finish(op, a, r.s, "rest")
         ELSE imapFallback(op, r.s, a, page)

GetMailFolders(a) == mailHandler("GetMailFolders", a, 0)

GetMessages(a) == \E page \in Pages : mailHandler("GetMessages", a, page)

GetMessageDetail(a) == mailHandler("GetMessageDetail", a, 0)

\* A GetAttachments that turns to the IMAP scope when REST fails.
GetAttachmentsFallingBack(a) ==
  IF MarkedIMAP(accounts[a])
  THEN Finish("GetAttachments", a, Cur, "empty")
  ELSE \E r \in restAttempt(a) :
         IF r.ok
         THEN Finish("GetAttachments", a, r.s, "rest")
         ELSE \E t \in getIMAPToken(r.s, a, FALSE) :
                Finish("GetAttachments", a,
                       IF t.ok THEN UpdateProtocol(t.s, a, "imap") ELSE t.s, "empty")

GetAttachments(a) ==
  IF MarkedIMAP(accounts[a])
  THEN Finish("GetAttachments", a, Cur, "empty")
  ELSE \E r \in restAttempt(a) :
         Finish("GetAttachments", a, r.s, IF r.ok THEN "rest" ELSE "empty")

\* ImportAccounts(content) = accountSvc.Import(content).  Every parsed line
\* runs INSERT OR REPLACE on the unique email: an existing row is deleted and
\* a new one inserted with the columns of the statement (refresh_token,
\* status 'active') and every other column at its default, under a new id.
\* `a` names the account by its email; the token maps are keyed by id, so
\* the new row starts with no cached token.  The pool is keyed by email.
\* The text holds the refresh tokens of the lines that carry a's email.
ImportTexts == {<<>>, <<"rt0">>, <<"rt2">>}

ImportAccounts(a) ==
  \E text \in ImportTexts :
    IF text = <<>>
    THEN FinishArgs("ImportAccounts", a, Cur, "imported", <<0>>)
    ELSE FinishArgs("ImportAccounts", a,
                    [Cur EXCEPT !.accounts[a] = [NewAccount EXCEPT !.RefreshToken = text[Len(text)]],
                                !.tokens[a] = NoCache,
                                !.imapTokens[a] = NoCache],
                    "imported", <<Len(text)>>)

\* --- the token functions of App, called on their own
ObtainToken(a) ==
  \E force \in BOOLEAN : \E t \in getToken(Cur, a, force) :
    Finish("getToken", a, t.s, IF t.ok THEN "token" ELSE "error")

ObtainIMAPToken(a) ==
  \E force \in BOOLEAN : \E t \in getIMAPToken(Cur, a, force) :
    Finish("getIMAPToken", a, t.s, IF t.ok THEN "token" ELSE "error")

ClearTokenCache(a) ==
  Finish("clearTokenCache", a, clearTokenCache(Cur, a), "none")

\* --- the methods of IMAPService, called on their own with a given access token
PoolTokens == {[id |-> 1, scope |-> "imap"], [id |-> 2, scope |-> "imap"]}

ServiceGetMailFolders(a) ==
  \E tok \in PoolTokens : \E r \in IMAPGetMailFolders(Cur, a, tok) :
    Finish("IMAPService.GetMailFolders", a, r.s, IF r.ok THEN "imap" ELSE "error")

ServiceGetMessages(a) ==
  \E tok \in PoolTokens, page \in Pages :
    \E r \in IMAPGetMessages(Cur, a, tok, page * PageSize, PageSize) :
      Finish("IMAPService.GetMessages", a, r.s, IF r.ok THEN "imap" ELSE "error")

ServiceGetMessage(a) ==
  \E tok \in PoolTokens : \E r \in IMAPGetMessage(Cur, a, tok) :
    Finish("IMAPService.GetMessage", a, r.s, IF r.ok THEN "imap" ELSE "error")

\* The caller takes the response.
Return ==
  /\ ~Idle
  /\ last' = NoOp
  /\ UNCHANGED <<now, tokens, imapTokens, accounts, pool, conns, issued, events>>
  /\ UNCHANGED <<procs, poolMu, wire, reader>>

\* A minute passes between two requests.
Tick ==
  /\ Idle
  /\ now < MaxTime
  /\ now' = now + 1
  /\ UNCHANGED <<tokens, imapTokens, accounts, pool, conns, issued, events, last>>
  /\ UNCHANGED <<procs, poolMu, wire, reader>>

Init ==
  /\ now = 0
  /\ tokens = [a \in Accounts |-> NoCache]
  /\ imapTokens = [a \in Accounts |-> NoCache]
  /\ accounts = [a \in Accounts |-> NewAccount]
  /\ pool = [a \in Accounts |-> NoPooled]
  /\ conns = <<>>
  /\ issued = 0
  /\ events = [a \in Accounts |-> 0]
  /\ last = NoOp
  /\ procs = <<>>
  /\ poolMu = 0
  /\ wire = <<>>
  /\ reader = IdleReader

\* The application: requests of the front end, served one after the other.
Next ==
  \/ \E a \in Accounts : CheckAccountToken(a)
  \/ \E a \in Accounts : GetMailFolders(a)
  \/ \E a \in Accounts : GetMessages(a)
  \/ \E a \in Accounts : GetMessageDetail(a)
  \/ \E a \in Accounts : GetAttachments(a)
  \/ Return

Spec == Init /\ [][Next]_vars

\* The token cache over time.
NextToken ==
  \/ \E a \in Accounts : CheckAccountToken(a)
  \/ \E a \in Accounts : ObtainToken(a)
  \/ \E a \in Accounts : ObtainIMAPToken(a)
  \/ \E a \in Accounts : ClearTokenCache(a)
  \/ Return
  \/ Tick

SpecToken == Init /\ [][NextToken]_vars

\* The connection pool over time.
NextPool ==
  \/ \E a \in Accounts : ServiceGetMailFolders(a)
  \/ \E a \in Accounts : ServiceGetMessages(a)
  \/ \E a \in Accounts : ServiceGetMessage(a)
  \/ Return
  \/ Tick

SpecPool == Init /\ [][NextPool]_vars

\* --- IMAPService.GetMessages over mailboxes and pages of many sizes
\* The application with the account import: folders are listed and the
\* account's line is imported again.
NextImport ==
  \/ \E a \in Accounts : GetMailFolders(a)
  \/ \E a \in Accounts : ImportAccounts(a)
  \/ Return

SpecImport == Init /\ [][NextImport]_vars

\* ----------------------------------------- IMAPClient: one command's reads
\* fmt.Sprintf("A%03d", n) without the letter: the decimal digits of n,
\* padded with zeros to three.
RECURSIVE Digits(_)
Digits(n) == IF n < 10 THEN <<n>> ELSE Append(Digits(n \div 10), n % 10)

TagOf(n) ==
  LET d == Digits(n)
  IN IF Len(d) >= 3 THEN d ELSE [i \in 1..(3 - Len(d)) |-> 0] \o d

MaxTag == 3

\* What the server can put on the connection, line by line.  `tag` is how the
\* line starts: "*" (untagged), "own" (the tag of the command being read) or
\* "other" (the tag of an earlier command); `status` is the word after the
\* tag; `quotes` is a status word that the text of the line carries right
\* after a copy of the command's own tag (a message body that holds the
\* characters "A002 NO", for example), "" when it carries none.
DataLine == [tag |-> "*", status |-> "", quotes |-> ""]
QuotingLines == {[tag |-> "*", status |-> "", quotes |-> q] : q \in {"OK", "NO", "BAD"}}
TaggedLines == {[tag |-> "own", status |-> st, quotes |-> ""] : st \in {"OK", "NO", "BAD"}}
StaleLine == [tag |-> "other", status |-> "OK", quotes |-> ""]
Lines == {DataLine, StaleLine} \cup QuotingLines \cup TaggedLines

\* What one conn.Read can deliver: one line, or two lines at once.  The
\* server sends nothing after the tagged line of the command.
Chunks ==
  {<<l>> : l \in Lines} \cup
  {<<l1, l2>> : l1 \in Lines \ TaggedLines, l2 \in Lines}

\* strings.Contains(resp, tag + " " + status): the characters are found at
\* the start of the tagged line or anywhere inside another line.
Contains(resp, status) ==
  \E i \in 1..Len(resp) :
    \/ resp[i].tag = "own" /\ resp[i].status = status
    \/ resp[i].quotes = status

\* result.Write(c.buffer[:n]); a line that is already in the text is kept
\* once, which leaves every Contains as it is.
RECURSIVE WriteLines(_, _)
WriteLines(result, chunk) ==
  IF chunk = <<>> THEN result
  ELSE WriteLines(IF \E i \in 1..Len(result) : result[i] = Head(chunk)
                  THEN result ELSE Append(result, Head(chunk)),
                  Tail(chunk))

\* c.tagNum++, the write of "<tag> <cmd>\r\n", and the entry into
\* readUntilTag; a failed write returns at once.
StartCommand ==
  /\ reader.phase = "idle"
  /\ reader.tagNum < MaxTag
  /\ \E written \in BOOLEAN :
       reader' = [phase |-> IF written THEN "reading" ELSE "returned",
                  tagNum |-> reader.tagNum + 1,
                  result |-> <<>>,
                  reads |-> 0,
                  err |-> IF written THEN "" ELSE "write error"]
  /\ UNCHANGED <<sequential, procs, poolMu, wire>>

\* One turn of the loop of readUntilTag: a Read that fails (deadline, closed
\* connection) returns the text so far with the error; a Read that delivers
\* a chunk appends it and tests OK before NO and BAD.
ReadChunk ==
  /\ reader.phase = "reading"
  /\ \/ reader' = [reader EXCEPT !.phase = "returned", !.err = "read error"]
     \/ \E chunk \in Chunks :
          LET resp == WriteLines(reader.result, chunk)
          IN reader' = [reader EXCEPT
                          !.result = resp,
                          !.reads = (@ + 1) % 2,
                          !.phase = IF Contains(resp, "OK") \/ Contains(resp, "NO") \/ Contains(resp, "BAD")
                                    THEN "returned" ELSE "reading",
                          !.err = IF Contains(resp, "OK") THEN ""
                                  ELSE IF Contains(resp, "NO") \/ Contains(resp, "BAD")
                                  THEN "IMAP error" ELSE ""]
  /\ UNCHANGED <<sequential, procs, poolMu, wire>>

\* The caller of command takes (resp, err).
TakeResponse ==
  /\ reader.phase = "returned"
  /\ reader' = [IdleReader EXCEPT !.tagNum = reader.tagNum]
  /\ UNCHANGED <<sequential, procs, poolMu, wire>>

NextRead == StartCommand \/ ReadChunk \/ TakeResponse

SpecRead == Init /\ [][NextRead]_vars

\* The Go scheduler runs the goroutine, and every Read returns within its
\* 30 s deadline, with data or with an error.
SpecReadFair == SpecRead /\ WF_vars(ReadChunk) /\ WF_vars(TakeResponse)

\* --------------------------------------------------- MIME body decoding
\* Texts are sequences of bytes.
TAB == 9
LF == 10
CR == 13
SP == 32
EQUALS == 61

\* strings.TrimSpace on a text of single-byte characters.
IsSpace(b) == b \in {TAB, LF, 11, 12, CR, SP}

RECURSIVE TrimLeft(_)
TrimLeft(s) == IF s # <<>> /\ IsSpace(Head(s)) THEN TrimLeft(Tail(s)) ELSE s

RECURSIVE TrimRight(_)
TrimRight(s) == IF s # <<>> /\ IsSpace(s[Len(s)]) THEN TrimRight(SubSeq(s, 1, Len(s) - 1)) ELSE s

TrimSpace(s) == TrimLeft(TrimRight(s))

\* A decoder returns the bytes and whether it ended without error.
Decoded(bytes) == [ok |-> TRUE, bytes |-> bytes]
DecodeError == [ok |-> FALSE, bytes |-> <<>>]

\* --- mime/quotedprintable.Reader
FromHex(b) ==
  IF b \in 48..57 THEN b - 48
  ELSE IF b \in 65..70 THEN b - 55
  ELSE IF b \in 97..102 THEN b - 87
  ELSE -1

\* isQPDiscardWhitespace
RECURSIVE TrimQPRight(_)
TrimQPRight(s) ==
  IF s # <<>> /\ s[Len(s)] \in {SP, TAB, CR, LF} THEN TrimQPRight(SubSeq(s, 1, Len(s) - 1)) ELSE s

\* The bytes of one line after the line ending has been dealt with.
RECURSIVE QPLineBytes(_)
QPLineBytes(line) ==
  IF line = <<>> THEN Decoded(<<>>)
  ELSE LET b == Head(line) IN
       IF b = EQUALS
       THEN IF Len(line) >= 3 /\ FromHex(line[2]) >= 0 /\ FromHex(line[3]) >= 0
            THEN LET rest == QPLineBytes(SubSeq(line, 4, Len(line)))
                 IN IF rest.ok THEN Decoded(<<FromHex(line[2]) * 16 + FromHex(line[3])>> \o rest.bytes)
                    ELSE DecodeError
            ELSE IF Len(line) >= 2 /\ line[2] \notin {CR, LF}
            THEN LET rest == QPLineBytes(Tail(line))
                 IN IF rest.ok THEN Decoded(<<EQUALS>> \o rest.bytes) ELSE DecodeError
            ELSE DecodeError
       ELSE IF b \in {TAB, CR, LF} \/ b >= 128 \/ (b >= SP /\ b <= 126)
       THEN LET rest == QPLineBytes(Tail(line))
            IN IF rest.ok THEN Decoded(<<b>> \o rest.bytes) ELSE DecodeError
       ELSE DecodeError

\* The first line of s, with its line feed when it has one.
RECURSIVE FirstLine(_)
FirstLine(s) ==
  IF s = <<>> THEN <<>>
  ELSE IF Head(s) = LF THEN <<LF>>
  ELSE <<Head(s)>> \o FirstLine(Tail(s))

\* One line: trailing white space is dropped, a final "=" is a soft line
\* break, otherwise the line ending is put back.
QPLine(whole, atEOF) ==
  LET hasLF == whole # <<>> /\ whole[Len(whole)] = LF
      hasCR == Len(whole) >= 2 /\ whole[Len(whole)] = LF /\ whole[Len(whole) - 1] = CR
      stripped == TrimQPRight(whole)
      rightStripped == SubSeq(whole, Len(stripped) + 1, Len(whole))
      soft == stripped # <<>> /\ stripped[Len(stripped)] = EQUALS
      content == IF soft THEN SubSeq(stripped, 1, Len(stripped) - 1) ELSE stripped
      softOk == \/ (rightStripped # <<>> /\ rightStripped[1] = LF)
                \/ (Len(rightStripped) >= 2 /\ rightStripped[1] = CR /\ rightStripped[2] = LF)
                \/ (rightStripped = <<>> /\ content # <<>> /\ atEOF)
      ending == IF soft \/ ~hasLF THEN <<>> ELSE IF hasCR THEN <<CR, LF>> ELSE <<LF>>
      bytes == QPLineBytes(content \o ending)
  IN IF bytes.ok /\ (soft => softOk) THEN bytes ELSE DecodeError

RECURSIVE QPDecode(_)
QPDecode(s) ==
  IF s = <<>> THEN Decoded(<<>>)
  ELSE LET whole == FirstLine(s)
           after == SubSeq(s, Len(whole) + 1, Len(s))
           line == QPLine(whole, whole[Len(whole)] # LF)
           rest == QPDecode(after)
       IN IF line.ok /\ rest.ok THEN Decoded(line.bytes \o rest.bytes) ELSE DecodeError

\* --- encoding/base64.StdEncoding.DecodeString
B64Val(c) ==
  IF c \in 65..90 THEN c - 65
  ELSE IF c \in 97..122 THEN c - 71
  ELSE IF c \in 48..57 THEN c + 4
  ELSE IF c = 43 THEN 62
  ELSE IF c = 47 THEN 63
  ELSE -1

RECURSIVE Without(_, _)
Without(s, drop) ==
  IF s = <<>> THEN <<>>
  ELSE IF Head(s) \in drop THEN Without(Tail(s), drop)
  ELSE <<Head(s)>> \o Without(Tail(s), drop)

\* strings.ReplaceAll(strings.ReplaceAll(body, "\r\n", ""), "\n", "")
RECURSIVE StripLineBreaks(_)
StripLineBreaks(s) ==
  IF s = <<>> THEN <<>>
  ELSE IF Len(s) >= 2 /\ s[1] = CR /\ s[2] = LF THEN StripLineBreaks(SubSeq(s, 3, Len(s)))
  ELSE IF s[1] = LF THEN StripLineBreaks(Tail(s))
  ELSE <<Head(s)>> \o StripLineBreaks(Tail(s))

\* Groups of four characters; "=" pads the last group only.
RECURSIVE B64Groups(_)
B64Groups(s) ==
  IF s = <<>> THEN Decoded(<<>>)
  ELSE IF Len(s) < 4 THEN DecodeError
  ELSE LET v1 == B64Val(s[1])
           v2 == B64Val(s[2])
           v3 == B64Val(s[3])
           v4 == B64Val(s[4])
           last4 == Len(s) = 4
           b1 == (v1 * 4 + v2 \div 16) % 256
           b2 == ((v2 % 16) * 16 + v3 \div 4) % 256
           b3 == ((v3 % 4) * 64 + v4) % 256
       IN IF v1 < 0 \/ v2 < 0 THEN DecodeError
          ELSE IF s[3] = EQUALS
          THEN IF last4 /\ s[4] = EQUALS THEN Decoded(<<b1>>) ELSE DecodeError
          ELSE IF v3 < 0 THEN DecodeError
          ELSE IF s[4] = EQUALS
          THEN IF last4 THEN Decoded(<<b1, b2>>) ELSE DecodeError
          ELSE IF v4 < 0 THEN DecodeError
          ELSE LET rest == B64Groups(SubSeq(s, 5, Len(s)))
               IN IF rest.ok THEN Decoded(<<b1, b2, b3>> \o rest.bytes) ELSE DecodeError

\* DecodeString skips CR and LF wherever they stand.
B64Decode(s) == B64Groups(Without(s, {CR, LF}))

\* --- the header of a part: the transfer encoding it declares, as written,
\* and the encoding names that occur elsewhere in its text (a subject or a
\* file name such as "base64.txt").
Encodings == {"quoted-printable", "base64"}
ToLower(cte) ==
  CASE cte = "Quoted-Printable" -> "quoted-printable"
    [] cte = "BASE64" -> "base64"
    [] OTHER -> cte
Declarations == {"", "7bit", "quoted-printable", "Quoted-Printable", "base64", "BASE64"}
Headers == {[declared |-> d, mentions |-> m] : d \in Declarations, m \in SUBSET Encodings}

\* strings.Contains(strings.ToLower(header), name)
HeaderContains(header, name) == ToLower(header.declared) = name \/ name \in header.mentions

decodeContent(header, body) ==
  LET qp == QPDecode(body)
      body1 == IF HeaderContains(header, "quoted-printable") /\ qp.ok THEN qp.bytes ELSE body
      b64 == B64Decode(StripLineBreaks(body1))
      body2 == IF HeaderContains(header, "base64") /\ b64.ok THEN b64.bytes ELSE body1
  IN TrimSpace(body2)

Bodies ==
  {
    <<97, 61, 48, 65, 98>>,   \* a=0Ab
    <<61, 48, 65>>,   \* =0A
    <<120, 61, 51, 68, 61, 48, 97>>,   \* x=3D=0a
    <<97, 98, 61, 13, 10, 99, 100>>,   \* ab=\r\ncd (soft line break)
    <<97, 32, 61, 10, 98>>,   \* a =\nb
    <<61, 90, 90>>,   \* =ZZ (not hexadecimal)
    <<97, 61, 52>>,   \* a=4 (cut short)
    <<89, 87, 74, 106>>,   \* YWJj
    <<89, 87, 74, 106, 13, 10, 90, 71, 86, 109>>,   \* YWJj\r\nZGVm
    <<89, 81, 61, 61>>,   \* YQ==
    <<73, 71, 69, 61>>,   \* IGE= (base64 of " a")
    <<89, 87, 74>>,   \* YWJ (not a multiple of four)
    <<97, 32, 98>>,   \* a b
    <<32, 104, 105, 13, 10>>,   \* \" hi\r\n\"
    <<97, 1>>,   \* a followed by the byte 0x01
    <<>>   \* the empty body
  }

\* extractPartContent hands the header and the body of one MIME part to
\* decodeContent.
DecodePart ==
  \E header \in Headers, body \in Bodies :
    FinishArgs("decodeContent", 1, Cur, "decoded", <<header, body, decodeContent(header, body)>>)

NextDecode == DecodePart \/ Return

SpecDecode == Init /\ [][NextDecode]_vars

\* ------------------------------------------------- folder name decoding
\* Names are sequences of characters (code points).
AMPERSAND == 38

\* replacements: the encoded name and the literal it stands for
\* (the literals as code points).
replacements == {
    \* "&UXZO1mWHTvZZOQ-"
    <<<<38, 85, 88, 90, 79, 49, 109, 87, 72, 84, 118, 90, 90, 79, 81, 45>>,
      <<24050, 21457, 36865, 37038, 20214>>>>,
    \* "&V4NXPpCuTvY-"
    <<<<38, 86, 52, 78, 88, 80, 112, 67, 117, 84, 118, 89, 45>>,
      <<24050, 21024, 38500, 37038, 20214>>>>,
    \* "&Xn9USpCuTvY-"
    <<<<38, 88, 110, 57, 85, 83, 112, 67, 117, 84, 118, 89, 45>>,
      <<22403, 22334, 37038, 20214>>>>,
    \* "&g0l6P3ux-"
    <<<<38, 103, 48, 108, 54, 80, 51, 117, 120, 45>>,
      <<33609, 31295>>>>,
    \* "&W1hoYw-"
    <<<<38, 87, 49, 104, 111, 89, 119, 45>>,
      <<23384, 26723>>>>
  }

\* Names that are not in the table.
OtherNames == {
    <<73, 78, 66, 79, 88>>,   \* INBOX
    <<83, 101, 110, 116>>,   \* Sent
    <<74, 117, 110, 107, 32, 69, 45, 109, 97, 105, 108>>,   \* Junk E-mail
    <<38, 90, 101, 86, 110, 76, 73, 113, 101, 45>>,   \* &ZeVnLIqe- (encoded, not in the table)
    <<82, 38, 68>>,   \* R&D
    <<38, 87, 49, 104, 111, 89, 119, 45, 47, 50, 48, 50, 52>>,   \* &W1hoYw-/2024 (a table name with a suffix)
    <<38, 119, 49, 104, 111, 121, 119, 45>>,   \* &w1hoyw- (a table name in lower case)
    <<97, 45, 98>>   \* a-b
  }

FolderNames == {r[1] : r \in replacements} \cup OtherNames

\* What the comment in the function describes: "&" becomes "+" and "-" is
\* removed.
decodeIMAPUTF7Rewritten(s) ==
  [i \in 1..Len(Without(s, {45})) |->
     IF Without(s, {45})[i] = AMPERSAND THEN 43 ELSE Without(s, {45})[i]]

decodeIMAPUTF7(s) ==
  IF ~\E i \in 1..Len(s) : s[i] = AMPERSAND
  THEN s
  ELSE IF \E r \in replacements : r[1] = s
  THEN (CHOOSE r \in replacements : r[1] = s)[2]
  ELSE s

MaxFolders == 2

\* The loop of GetMailFolders over the "* LIST" lines: each name is decoded.
DecodeFolderNames ==
  \E n \in 1..MaxFolders : \E names \in [1..n -> FolderNames] :
    FinishArgs("decodeIMAPUTF7", 1, Cur, "decoded",
               <<names, [i \in 1..n |-> decodeIMAPUTF7(names[i])]>>)

NextFolders == DecodeFolderNames \/ Return

SpecFolders == Init /\ [][NextFolders]_vars

\* ------------------------------ IMAPService.GetMessage, run concurrently
\* Every call of a bound method runs in a goroutine of its own.  Each
\* goroutine of Procs serves one IMAPService.GetMessage(email, accessToken):
\* getClient, then the commands SELECT and UID FETCH on the client it got.
Procs == {1, 2}
Emails == {1, 2}
CommandsOfGetMessage == 2

IdleProc == [pc |-> "idle", email |-> 0, token |-> NoToken, client |-> 0, blocking |-> FALSE,
             loaded |-> 0, left |-> 0, err |-> "", holds |-> ""]

\* A client as newIMAPClient returns it: AUTHENTICATE was command A001.
NewWire == [tagNum |-> 1, sent |-> <<TagOf(1)>>, inflight |-> {}, loggedOutUnder |-> {}]

\* The goroutines that hold client c and have commands left to send on it.
Users(c) == {q \in Procs : procs[q].client = c /\ procs[q].pc \in {"load", "write", "read"}}

\* The front end calls GetMessage.
CallGetMessage(p) ==
  /\ procs[p].pc = "idle"
  /\ \E e \in Emails, tok \in PoolTokens :
       procs' = [procs EXCEPT ![p] = [IdleProc EXCEPT !.pc = "lock", !.email = e, !.token = tok]]
  /\ UNCHANGED <<sequential, poolMu, wire>>
  /\ UNCHANGED reader

\* s.poolMu.Lock() at the top of getClient.  What follows the lock blocks on
\* the network unless the pooled entry is reused.
getClientLock(p) ==
  /\ procs[p].pc = "lock"
  /\ poolMu = 0
  /\ poolMu' = p
  /\ procs' = [procs EXCEPT ![p].pc = "getClient",
                            ![p].blocking = ~(pool[procs[p].email].present /\
                                              PoolHit(pool[procs[p].email], procs[p].token))]
  /\ UNCHANGED <<sequential, wire, reader>>

\* The body of getClient and the deferred s.poolMu.Unlock(): the LOGOUT and
\* close of a replaced entry, the dial, greeting and AUTHENTICATE of a new one.
getClientBody(p) ==
  /\ procs[p].pc = "getClient"
  /\ poolMu = p
  /\ \E g \in getClient(Cur, procs[p].email, procs[p].token) :
       LET old == pool[procs[p].email]
           replaced == old.present /\ ~PoolHit(old, procs[p].token)
           wire1 == IF replaced
                    THEN [wire EXCEPT ![old.client].tagNum = @ + 1,
                                      ![old.client].sent = Append(@, TagOf(wire[old.client].tagNum + 1)),
                                      ![old.client].loggedOutUnder = Users(old.client)]
                    ELSE wire
       IN /\ pool' = g.s.pool
          /\ conns' = g.s.conns
          /\ wire' = IF Len(g.s.conns) > Len(conns) THEN Append(wire1, NewWire) ELSE wire1
          /\ procs' = [procs EXCEPT ![p].pc = IF g.ok THEN "load" ELSE "done",
                                    ![p].client = g.client,
                                    ![p].left = IF g.ok THEN CommandsOfGetMessage ELSE 0,
                                    ![p].err = IF g.ok THEN "" ELSE "getClient failed"]
  /\ poolMu' = 0
  /\ UNCHANGED <<now, tokens, imapTokens, accounts, issued, events, last, reader>>

\* c.tagNum++ is a read and a write of the field, with nothing that keeps two
\* goroutines apart: this is the read.
commandLoad(p) ==
  /\ procs[p].pc = "load"
  /\ procs' = [procs EXCEPT ![p].pc = "write", ![p].loaded = wire[procs[p].client].tagNum]
  /\ UNCHANGED <<sequential, poolMu, wire, reader>>

\* The write of c.tagNum and c.conn.Write(tag + " " + cmd + "\r\n"); on a
\* closed connection the write fails and the command returns the error.
commandWrite(p) ==
  /\ procs[p].pc = "write"
  /\ LET c == procs[p].client
         n == procs[p].loaded + 1
     IN IF conns[c].open
        THEN /\ wire' = [wire EXCEPT ![c].tagNum = n,
                                     ![c].sent = Append(@, TagOf(n)),
                                     ![c].inflight = @ \cup {p}]
             /\ procs' = [procs EXCEPT ![p].pc = "read"]
        ELSE /\ wire' = [wire EXCEPT ![c].tagNum = n]
             /\ procs' = [procs EXCEPT ![p].pc = IF procs[p].left > 1 THEN "load" ELSE "done",
                                       ![p].left = @ - 1,
                                       ![p].err = "write error"]
  /\ UNCHANGED <<sequential, poolMu, reader>>

\* readUntilTag returns (a result, NO/BAD or a read error); GetMessage goes on
\* to its next command whatever SELECT returned.
commandRead(p) ==
  /\ procs[p].pc = "read"
  /\ wire' = [wire EXCEPT ![procs[p].client].inflight = @ \ {p}]
  /\ \E o \in CmdOutcomes :
       procs' = [procs EXCEPT ![p].pc = IF procs[p].left > 1 THEN "load" ELSE "done",
                              ![p].left = @ - 1,
                              ![p].err = IF o = "ok" THEN "" ELSE o]
  /\ UNCHANGED <<sequential, poolMu, reader>>

InitConc ==
  /\ now = 0
  /\ tokens = [a \in Accounts |-> NoCache]
  /\ imapTokens = [a \in Accounts |-> NoCache]
  /\ accounts = [a \in Accounts |-> NewAccount]
  /\ pool = [e \in Emails |-> NoPooled]
  /\ conns = <<>>
  /\ issued = 0
  /\ events = [a \in Accounts |-> 0]
  /\ last = NoOp
  /\ procs = [p \in Procs |-> IdleProc]
  /\ poolMu = 0
  /\ wire = <<>>
  /\ reader = IdleReader

NextConc ==
  \E p \in Procs :
    \/ CallGetMessage(p)
    \/ getClientLock(p)
    \/ getClientBody(p)
    \/ commandLoad(p)
    \/ commandWrite(p)
    \/ commandRead(p)

SpecConc == InitConc /\ [][NextConc]_vars

\* ------------------------------ App.getToken / getIMAPToken, run concurrently
\* Each goroutine of Procs serves one getToken or getIMAPToken call for the
\* same account.  tokenMu is held only around the cache read and around the
\* cache write; GetByID, the remote refresh and the two database updates run
\* outside it, so the calls interleave between these steps.  holds is the
\* goroutine's grip on tokenMu: "R" after RLock, "W" after Lock, else "".
Scopes == {"rest", "imap"}
NoPair == [token |-> NoToken, expiresAt |-> 0]

IdleCall == [pc |-> "idle", scope |-> "none", force |-> FALSE, account |-> NewAccount,
             pair |-> NoPair, rt |-> "", err |-> "", ret |-> NoToken, holds |-> ""]

\* sync.RWMutex: RLock waits while a writer holds the lock, Lock waits while
\* anyone holds it.
CanRLock == \A q \in Procs : procs[q].holds # "W"
CanLock == \A q \in Procs : procs[q].holds = ""

CacheOf(scope) == IF scope = "rest" THEN tokens ELSE imapTokens

\* A cache write that updates the token of the entry the map already holds.
CacheStoreInPlace(entry, token, expiresAt) ==
  IF entry.present THEN [entry EXCEPT !.token = token]
  ELSE [present |-> TRUE, token |-> token, expiresAt |-> expiresAt]

\* a.tokens[accountID] = &tokenCache{token: .., expiresAt: ..}: the map slot
\* is pointed at a new struct that holds both fields.
CacheStore(entry, token, expiresAt) ==
  [present |-> TRUE, token |-> token, expiresAt |-> expiresAt]

\* The front end calls getToken (scope "rest") or getIMAPToken (scope "imap").
CallToken(p, a) ==
  /\ procs[p].pc = "idle"
  /\ \E scope \in Scopes, force \in BOOLEAN :
       procs' = [procs EXCEPT ![p] = [IdleCall EXCEPT !.pc = IF force THEN "GetByID" ELSE "RLock",
                                                      !.scope = scope, !.force = force]]
  /\ UNCHANGED <<sequential, poolMu, wire, reader>>

\* if !forceRefresh { a.tokenMu.RLock()
tokenRLock(p, a) ==
  /\ procs[p].pc = "RLock"
  /\ CanRLock
  /\ procs' = [procs EXCEPT ![p].pc = "cache", ![p].holds = "R"]
  /\ UNCHANGED <<sequential, poolMu, wire, reader>>

\* A cache read that unlocks only on a hit.
tokenCacheReadHolding(p, a) ==
  /\ procs[p].pc = "cache"
  /\ LET cached == CacheOf(procs[p].scope)[a] IN
       procs' = IF cached.present /\ Usable(cached.expiresAt)
                THEN [procs EXCEPT ![p].pc = "done", ![p].ret = cached.token, ![p].holds = ""]
                ELSE [procs EXCEPT ![p].pc = "GetByID"]
  /\ UNCHANGED <<sequential, poolMu, wire, reader>>

\* cached usable -> RUnlock; return cached.token.  Otherwise RUnlock and go on.
tokenCacheRead(p, a) ==
  /\ procs[p].pc = "cache"
  /\ LET cached == CacheOf(procs[p].scope)[a] IN
       procs' = IF cached.present /\ Usable(cached.expiresAt)
                THEN [procs EXCEPT ![p].pc = "done", ![p].ret = cached.token, ![p].holds = ""]
                ELSE [procs EXCEPT ![p].pc = "GetByID", ![p].holds = ""]
  /\ UNCHANGED <<sequential, poolMu, wire, reader>>

\* account := GetByID(accountID); getToken then looks at the persisted token
\* and, if it is usable, goes on to copy it into the cache.
tokenGetByID(p, a) ==
  /\ procs[p].pc = "GetByID"
  /\ LET account == accounts[a] IN
       procs' = IF procs[p].scope = "rest" /\ ~procs[p].force /\ PersistedUsable(account)
                THEN [procs EXCEPT ![p].pc = "store", ![p].account = account,
                                   ![p].pair = [token |-> account.AccessToken,
                                                expiresAt |-> account.TokenExpiresAt]]
                ELSE [procs EXCEPT ![p].pc = "refresh", ![p].account = account]
  /\ UNCHANGED <<sequential, poolMu, wire, reader>>

\* tokenResp, err := RefreshAccessToken[ForIMAP](..);
\* expiresAt := time.Now().Add(tokenResp.ExpiresIn)
tokenRefresh(p, a) ==
  /\ procs[p].pc = "refresh"
  /\ \E r \in IF procs[p].scope = "rest" THEN RefreshAccessToken(Cur)
              ELSE RefreshAccessTokenForIMAP(Cur) :
       /\ issued' = r.s.issued
       /\ procs' = IF r.ok
                   THEN [procs EXCEPT ![p].pc = "UpdateToken", ![p].rt = r.RefreshToken,
                                      ![p].pair = [token |-> r.AccessToken,
                                                   expiresAt |-> now + r.ExpiresIn]]
                   ELSE [procs EXCEPT ![p].pc = "failed", ![p].err = r.err]
  /\ UNCHANGED <<now, tokens, imapTokens, accounts, pool, conns, events, last>>
  /\ UNCHANGED <<poolMu, wire, reader>>

\* a.accountSvc.UpdateStatus(accountID, "error", err.Error()); return "", err
tokenRefreshFailed(p, a) ==
  /\ procs[p].pc = "failed"
  /\ accounts' = UpdateStatus(Cur, a, "error", procs[p].err).accounts
  /\ procs' = [procs EXCEPT ![p].pc = "done"]
  /\ UNCHANGED <<now, tokens, imapTokens, pool, conns, issued, events, last>>
  /\ UNCHANGED <<poolMu, wire, reader>>

\* a.accountSvc.UpdateToken(accountID, AccessToken, RefreshToken, expiresAt)
tokenUpdateToken(p, a) ==
  /\ procs[p].pc = "UpdateToken"
  /\ accounts' = UpdateToken(Cur, a, procs[p].pair.token, procs[p].rt,
                             procs[p].pair.expiresAt).accounts
  /\ procs' = [procs EXCEPT ![p].pc = "UpdateStatus"]
  /\ UNCHANGED <<now, tokens, imapTokens, pool, conns, issued, events, last>>
  /\ UNCHANGED <<poolMu, wire, reader>>

\* a.accountSvc.UpdateStatus(accountID, "active", "")
tokenUpdateStatus(p, a) ==
  /\ procs[p].pc = "UpdateStatus"
  /\ accounts' = UpdateStatus(Cur, a, "active", "").accounts
  /\ procs' = [procs EXCEPT ![p].pc = "store"]
  /\ UNCHANGED <<now, tokens, imapTokens, pool, conns, issued, events, last>>
  /\ UNCHANGED <<poolMu, wire, reader>>

\* a.tokenMu.Lock() before the cache write.
tokenLock(p, a) ==
  /\ procs[p].pc = "store"
  /\ CanLock
  /\ procs' = [procs EXCEPT ![p].pc = "locked", ![p].holds = "W"]
  /\ UNCHANGED <<sequential, poolMu, wire, reader>>

\* a.tokens[accountID] = &tokenCache{..}; a.tokenMu.Unlock(); return the
\* token.  last records the writer and the pair it held, per scope.
tokenCacheWrite(p, a) ==
  /\ procs[p].pc = "locked"
  /\ LET scope == procs[p].scope
         pair == procs[p].pair
         entry == CacheStore(CacheOf(scope)[a], pair.token, pair.expiresAt)
         before == IF last.op = "cache write" THEN last.args ELSE <<NoPair, NoPair>>
     IN /\ tokens' = IF scope = "rest" THEN [tokens EXCEPT ![a] = entry] ELSE tokens
        /\ imapTokens' = IF scope = "imap" THEN [imapTokens EXCEPT ![a] = entry] ELSE imapTokens
        /\ last' = [NoOp EXCEPT !.op = "cache write", !.acct = a,
                                !.args = IF scope = "rest" THEN <<pair, before[2]>>
                                         ELSE <<before[1], pair>>]
        /\ procs' = [procs EXCEPT ![p].pc = "done", ![p].ret = pair.token, ![p].holds = ""]
  /\ UNCHANGED <<now, accounts, pool, conns, issued, events>>
  /\ UNCHANGED <<poolMu, wire, reader>>

\* A minute passes while the calls are under way (each time.Now() reads it).
Elapse ==
  /\ now < MaxTime
  /\ now' = now + 1
  /\ UNCHANGED <<tokens, imapTokens, accounts, pool, conns, issued, events, last>>
  /\ UNCHANGED <<procs, poolMu, wire, reader>>

InitRefresh ==
  /\ now = 0
  /\ tokens = [a \in Accounts |-> NoCache]
  /\ imapTokens = [a \in Accounts |-> NoCache]
  /\ accounts = [a \in Accounts |-> NewAccount]
  /\ pool = [a \in Accounts |-> NoPooled]
  /\ conns = <<>>
  /\ issued = 0
  /\ events = [a \in Accounts |-> 0]
  /\ last = NoOp
  /\ procs = [p \in Procs |-> IdleCall]
  /\ poolMu = 0
  /\ wire = <<>>
  /\ reader = IdleReader

NextRefresh ==
  \/ \E p \in Procs, a \in Accounts :
       \/ CallToken(p, a)
       \/ tokenRLock(p, a)
       \/ tokenCacheRead(p, a)
       \/ tokenGetByID(p, a)
       \/ tokenRefresh(p, a)
       \/ tokenRefreshFailed(p, a)
       \/ tokenUpdateToken(p, a)
       \/ tokenUpdateStatus(p, a)
       \/ tokenLock(p, a)
       \/ tokenCacheWrite(p, a)
  \/ Elapse

SpecRefresh == InitRefresh /\ [][NextRefresh]_vars

\* ------------------------------------------------ tokenMu and poolMu
\* A goroutine runs one of: getToken / getIMAPToken, clearTokenCache, or
\* IMAPService.GetMessage (which takes poolMu in getClient).
CallClear(p, a) ==
  /\ procs[p].pc = "idle"
  /\ procs' = [procs EXCEPT ![p] = [IdleCall EXCEPT !.pc = "clear"]]
  /\ UNCHANGED <<sequential, poolMu, wire, reader>>

\* a.tokenMu.Lock() of clearTokenCache.
clearLock(p, a) ==
  /\ procs[p].pc = "clear"
  /\ CanLock
  /\ procs' = [procs EXCEPT ![p].pc = "clearing", ![p].holds = "W"]
  /\ UNCHANGED <<sequential, poolMu, wire, reader>>

\* delete(a.tokens, id); delete(a.imapTokens, id); a.tokenMu.Unlock()
clearDelete(p, a) ==
  /\ procs[p].pc = "clearing"
  /\ tokens' = [tokens EXCEPT ![a] = NoCache]
  /\ imapTokens' = [imapTokens EXCEPT ![a] = NoCache]
  /\ procs' = [procs EXCEPT ![p].pc = "done", ![p].holds = ""]
  /\ UNCHANGED <<now, accounts, pool, conns, issued, events, last>>
  /\ UNCHANGED <<poolMu, wire, reader>>

InitLocks ==
  /\ now = 0
  /\ tokens = [a \in Accounts |-> NoCache]
  /\ imapTokens = [a \in Accounts |-> NoCache]
  /\ accounts = [a \in Accounts |-> NewAccount]
  /\ pool = [e \in Emails |-> NoPooled]
  /\ conns = <<>>
  /\ issued = 0
  /\ events = [a \in Accounts |-> 0]
  /\ last = NoOp
  /\ procs = [p \in Procs |-> IdleCall]
  /\ poolMu = 0
  /\ wire = <<>>
  /\ reader = IdleReader

NextLocks ==
  \E p \in Procs :
    \/ \E a \in Accounts :
         \/ CallToken(p, a)
         \/ tokenRLock(p, a)
         \/ tokenCacheRead(p, a)
         \/ tokenGetByID(p, a)
         \/ tokenRefresh(p, a)
         \/ tokenRefreshFailed(p, a)
         \/ tokenUpdateToken(p, a)
         \/ tokenUpdateStatus(p, a)
         \/ tokenLock(p, a)
         \/ tokenCacheWrite(p, a)
         \/ CallClear(p, a)
         \/ clearLock(p, a)
         \/ clearDelete(p, a)
    \/ CallGetMessage(p)
    \/ getClientLock(p)
    \/ getClientBody(p)
    \/ commandLoad(p)
    \/ commandWrite(p)
    \/ commandRead(p)

SpecLocks == InitLocks /\ [][NextLocks]_vars

\* ------------------------- IMAPService.GetMailFolders: the LIST response
\* strings.HasPrefix
HasPrefix(s, prefix) == Len(s) >= Len(prefix) /\ SubSeq(s, 1, Len(prefix)) = prefix

\* strings.LastIndex: the zero-based index of the last occurrence, or -1.
LastIndex(s, substr) ==
  LET hits == {i \in 0..(Len(s) - Len(substr)) : SubSeq(s, i + 1, i + Len(substr)) = substr}
  IN IF hits = {} THEN -1 ELSE CHOOSE i \in hits : \A j \in hits : j <= i

QUOTE == 34

\* strings.Trim(s, "\"")
RECURSIVE TrimQuotes(_)
TrimQuotes(s) ==
  IF s # <<>> /\ Head(s) = QUOTE THEN TrimQuotes(Tail(s))
  ELSE IF s # <<>> /\ s[Len(s)] = QUOTE THEN TrimQuotes(SubSeq(s, 1, Len(s) - 1))
  ELSE s

\* "* LIST"
ListPrefix == <<42, 32, 76, 73, 83, 84>>
\* "\"/\" " and "\" "
SlashDelimiter == <<34, 47, 34, 32>>
QuoteSpace == <<34, 32>>

\* The lines of a LIST response (resp split at CRLF).
ListLines == {
    \* * LIST (\HasNoChildren) "/" INBOX
    <<42, 32, 76, 73, 83, 84, 32, 40, 92, 72, 97, 115, 78, 111, 67, 104, 105, 108, 100, 114, 101, 110, 41, 32, 34, 47, 34, 32, 73, 78, 66, 79, 88>>,
    \* * LIST (\HasNoChildren) "/" "Junk E-mail"
    <<42, 32, 76, 73, 83, 84, 32, 40, 92, 72, 97, 115, 78, 111, 67, 104, 105, 108, 100, 114, 101, 110, 41, 32, 34, 47, 34, 32, 34, 74, 117, 110, 107, 32, 69, 45, 109, 97, 105, 108, 34>>,
    \* * LIST (\HasNoChildren) "/" Drafts
    <<42, 32, 76, 73, 83, 84, 32, 40, 92, 72, 97, 115, 78, 111, 67, 104, 105, 108, 100, 114, 101, 110, 41, 32, 34, 47, 34, 32, 68, 114, 97, 102, 116, 115>>,
    \* * LIST (\HasNoChildren) "/" inbox
    <<42, 32, 76, 73, 83, 84, 32, 40, 92, 72, 97, 115, 78, 111, 67, 104, 105, 108, 100, 114, 101, 110, 41, 32, 34, 47, 34, 32, 105, 110, 98, 111, 120>>,
    \* * LIST (\HasNoChildren) "/" "Projects"
    <<42, 32, 76, 73, 83, 84, 32, 40, 92, 72, 97, 115, 78, 111, 67, 104, 105, 108, 100, 114, 101, 110, 41, 32, 34, 47, 34, 32, 34, 80, 114, 111, 106, 101, 99, 116, 115, 34>>,
    \* * LIST (\Noselect) "." Archive
    <<42, 32, 76, 73, 83, 84, 32, 40, 92, 78, 111, 115, 101, 108, 101, 99, 116, 41, 32, 34, 46, 34, 32, 65, 114, 99, 104, 105, 118, 101>>,
    \* * LIST (\Noselect) NIL Notes
    <<42, 32, 76, 73, 83, 84, 32, 40, 92, 78, 111, 115, 101, 108, 101, 99, 116, 41, 32, 78, 73, 76, 32, 78, 111, 116, 101, 115>>,
    \* * LIST () "." A
    <<42, 32, 76, 73, 83, 84, 32, 40, 41, 32, 34, 46, 34, 32, 65>>,
    \* A002 OK LIST completed
    <<65, 48, 48, 50, 32, 79, 75, 32, 76, 73, 83, 84, 32, 99, 111, 109, 112, 108, 101, 116, 101, 100>>
  }

Skipped == [kind |-> "skipped", name |-> <<>>]
Panicked == [kind |-> "panic", name |-> <<>>]

\* The body of the loop over the lines: idx is the last "\"/\" ", else the
\* last "\" "; the name is line[idx+4:], which panics when idx+4 > len(line).
folderLine(line) ==
  IF ~HasPrefix(line, ListPrefix) THEN Skipped
  ELSE LET first == LastIndex(line, SlashDelimiter)
           idx == IF first = -1 THEN LastIndex(line, QuoteSpace) ELSE first
       IN IF idx = -1 THEN Skipped
          ELSE IF idx + 4 > Len(line) THEN Panicked
          ELSE [kind |-> "folder",
                name |-> TrimQuotes(TrimSpace(SubSeq(line, idx + 5, Len(line))))]

\* models.MailFolder{ID, DisplayName} with zero counts, and imapNames[i].
NewFolder(name) ==
  LET id == getRestAPIFolderID(name)
  IN [ID |-> id,
      DisplayName |-> IF HasKey(folderDisplayNames, id) THEN Lookup(folderDisplayNames, id)
                      ELSE decodeIMAPUTF7(name),
      TotalItemCount |-> 0, UnreadItemCount |-> 0, imapName |-> name]

\* The folders appended while the lines are read; a panic ends the call.
RECURSIVE parseFolders(_, _)
parseFolders(lines, folders) ==
  IF lines = <<>> THEN [panic |-> FALSE, folders |-> folders]
  ELSE LET f == folderLine(Head(lines))
       IN IF f.kind = "panic" THEN [panic |-> TRUE, folders |-> <<>>]
          ELSE parseFolders(Tail(lines),
                            IF f.kind = "folder" THEN Append(folders, NewFolder(f.name))
                            ELSE folders)

\* What a STATUS command can come back with: an error, a response with
\* MESSAGES 3 UNSEEN 1, or a response in which neither number is found.
StatusAnswers == {"error", "counts", "no counts"}

\* The STATUS loop over folders: only the ids of targetFolders are asked.
\* answers[i] is what the server says to the STATUS sent for folders[i].
statusCounts(folders, answers) ==
  [i \in 1..Len(folders) |->
     IF folders[i].ID \in targetFolders /\ answers[i] = "counts"
     THEN [folders[i] EXCEPT !.TotalItemCount = 3, !.UnreadItemCount = 1]
     ELSE folders[i]]

\* The STATUS commands sent, by the folder index they were sent for.
statusSent(folders) == {i \in 1..Len(folders) : folders[i].ID \in targetFolders}

\* GetMailFolders from the LIST response on: the parse, then the STATUS loop.
ListFolders ==
  /\ Idle
  /\ \E n \in 1..MaxFolders : \E lines \in [1..n -> ListLines] :
       LET parsed == parseFolders(lines, <<>>)
       IN \E answers \in [statusSent(parsed.folders) -> StatusAnswers] :
            IF parsed.panic
            THEN FinishArgs("GetMailFolders", 1, Cur, "panic", <<lines, <<>>, {}, answers>>)
            ELSE FinishArgs("GetMailFolders", 1, Cur, "ok",
                            <<lines, statusCounts(parsed.folders, answers),
                              statusSent(parsed.folders), answers>>)

NextList == ListFolders \/ Return

SpecList == Init /\ [][NextList]_vars

\* ----------------------------------------- parseMessages: FETCH response
\* strings.Index: the zero-based index of the first occurrence, or -1.
Index(s, substr) ==
  LET hits == {i \in 0..(Len(s) - Len(substr)) : SubSeq(s, i + 1, i + Len(substr)) = substr}
  IN IF hits = {} THEN -1 ELSE CHOOSE i \in hits : \A j \in hits : i <= j

\* strings.Split(s, sep): the texts between the occurrences of sep.
RECURSIVE Split(_, _)
Split(s, sep) ==
  IF Index(s, sep) = -1 THEN <<s>>
  ELSE <<SubSeq(s, 1, Index(s, sep))>> \o Split(SubSeq(s, Index(s, sep) + Len(sep) + 1, Len(s)), sep)

\* The text sub stands at position i (one-based) of s.
StandsAt(s, i, sub) == i >= 1 /\ i + Len(sub) - 1 <= Len(s) /\ SubSeq(s, i, i + Len(sub) - 1) = sub

IsDigit(b) == b \in 48..57

\* The number of digits that stand at position i (one-based) and after it.
RECURSIVE DigitRun(_, _)
DigitRun(s, i) == IF i <= Len(s) /\ IsDigit(s[i]) THEN 1 + DigitRun(s, i + 1) ELSE 0

\* "* ", "FETCH", " FETCH (UID ", "FLAGS (", "\Seen", ")", "=?"
StarSpace == <<42, 32>>
FetchWord == <<70, 69, 84, 67, 72>>
FetchUID == <<32, 70, 69, 84, 67, 72, 32, 40, 85, 73, 68, 32>>
FlagsOpen == <<70, 76, 65, 71, 83, 32, 40>>
SeenFlag == <<92, 83, 101, 101, 110>>
CloseParen == <<41>>
WordStart == <<61, 63>>
BWordStart == <<61, 63, 117, 116, 102, 45, 56, 63, 66, 63>>
WordEnd == <<63, 61>>
FromName == <<70, 114, 111, 109, 58>>
SubjectName == <<83, 117, 98, 106, 101, 99, 116, 58>>
DateName == <<68, 97, 116, 101, 58>>

NoMatch == [found |-> FALSE, text |-> <<>>]

\* uidRe = `\* \d+ FETCH \(UID (\d+)` on s: the first group of the leftmost match.
uidReAt(s, i) ==
  LET d1 == DigitRun(s, i + 2)
      j == i + 2 + d1
      d2 == DigitRun(s, j + Len(FetchUID))
  IN IF /\ StandsAt(s, i, StarSpace)
        /\ d1 >= 1
        /\ StandsAt(s, j, FetchUID)
        /\ d2 >= 1
     THEN [found |-> TRUE, text |-> SubSeq(s, j + Len(FetchUID), j + Len(FetchUID) + d2 - 1)]
     ELSE NoMatch

uidRe(s) ==
  LET hits == {i \in 1..Len(s) : uidReAt(s, i).found}
  IN IF hits = {} THEN NoMatch ELSE uidReAt(s, CHOOSE i \in hits : \A j \in hits : i <= j)

\* seenRe = `FLAGS \([^)]*\\Seen[^)]*\)`: after some "FLAGS (" the text up to
\* the next ")" holds "\Seen".
seenRe(s) ==
  \E i \in 1..Len(s) :
    /\ StandsAt(s, i, FlagsOpen)
    /\ LET rest == SubSeq(s, i + Len(FlagsOpen), Len(s))
           close == Index(rest, CloseParen)
       IN close # -1 /\ Index(SubSeq(rest, 1, close), SeenFlag) # -1

\* \s of the regexp package: tab, line feed, form feed, carriage return, space.
IsReSpace(b) == b \in {TAB, LF, 12, CR, SP}

RECURSIVE SpaceRun(_, _)
SpaceRun(s, i) == IF i <= Len(s) /\ IsReSpace(s[i]) THEN 1 + SpaceRun(s, i + 1) ELSE 0

\* The text from position i to the end of its line (the line feed excluded).
RestOfLine(s, i) ==
  LET rest == SubSeq(s, i, Len(s))
      lf == Index(rest, <<LF>>)
  IN IF lf = -1 THEN rest ELSE SubSeq(rest, 1, lf)

\* `(?m)^Name:\s*(.+)` tried at position i: \s* takes the blanks and line
\* ends that follow, as many as leave one character other than a line feed
\* for (.+), which then runs to the end of that line.
fieldReAt(s, name, i) ==
  LET p == i + Len(name)
      starts == {k \in p..(p + SpaceRun(s, p)) : k <= Len(s) /\ s[k] # LF}
  IN IF /\ (i = 1 \/ s[i - 1] = LF)
        /\ StandsAt(s, i, name)
        /\ starts # {}
     THEN [found |-> TRUE, text |-> RestOfLine(s, CHOOSE k \in starts : \A j \in starts : j <= k)]
     ELSE NoMatch

\* fromRe, subjRe, dateRe: the first group of the leftmost match.
fieldRe(s, name) ==
  LET hits == {i \in 1..Len(s) : fieldReAt(s, name, i).found}
  IN IF hits = {} THEN NoMatch ELSE fieldReAt(s, name, CHOOSE i \in hits : \A j \in hits : i <= j)

\* mime.WordDecoder.DecodeHeader: a header without "=?" is returned as it
\* is; a header that is one base64 word in UTF-8 is decoded (the headers
\* of FetchPieces are of these two kinds); on an error s is returned.
decodeHeader(s) ==
  IF Index(s, WordStart) = -1 THEN s
  ELSE IF /\ HasPrefix(s, BWordStart)
          /\ Len(s) >= Len(BWordStart) + Len(WordEnd)
          /\ SubSeq(s, Len(s) - 1, Len(s)) = WordEnd
          /\ B64Decode(SubSeq(s, Len(BWordStart) + 1, Len(s) - 2)).ok
       THEN B64Decode(SubSeq(s, Len(BWordStart) + 1, Len(s) - 2)).bytes
       ELSE s

NilAddr == [present |-> FALSE, Address |-> <<>>]

\* The message of one block, or no message: the loop body of parseMessages.
messageOf(block) ==
  IF Index(block, FetchWord) = -1 THEN <<>>
  ELSE LET uidMatch == uidRe(StarSpace \o block)
           from == fieldRe(block, FromName)
           subj == fieldRe(block, SubjectName)
           date == fieldRe(block, DateName)
       IN IF ~uidMatch.found THEN <<>>
          ELSE <<[ID |-> uidMatch.text,
                  IsRead |-> seenRe(block),
                  From |-> IF from.found
                           THEN [present |-> TRUE, Address |-> decodeHeader(TrimSpace(from.text))]
                           ELSE NilAddr,
                  Subject |-> IF subj.found THEN decodeHeader(TrimSpace(subj.text)) ELSE <<>>,
                  ReceivedDateTime |-> IF date.found THEN TrimSpace(date.text) ELSE <<>>]>>

RECURSIVE messagesOf(_)
messagesOf(blocks) ==
  IF blocks = <<>> THEN <<>> ELSE messageOf(Head(blocks)) \o messagesOf(Tail(blocks))

Reverse(s) == [i \in 1..Len(s) |-> s[Len(s) + 1 - i]]

\* A parseMessages that returns the messages in the order of the response.
parseMessagesInOrder(resp) == messagesOf(Split(resp, StarSpace))

parseMessages(resp) == Reverse(messagesOf(Split(resp, StarSpace)))

\* The untagged responses a server sends to the FETCH of GetMessages.
FetchPieces == {
    \* a read message, UID 7:
    \* * 1 FETCH (UID 7 FLAGS (\Seen) BODY[HEADER.FIELDS (FROM SUBJECT DATE)] {41}\r\nFrom: a@x.io\r\nSubject: hi\r\nDate: d1\r\n\r\n)\r\n
    <<42, 32, 49, 32, 70, 69, 84, 67, 72, 32, 40, 85, 73, 68, 32, 55, 32, 70, 76, 65, 71, 83, 32, 40, 92, 83, 101, 101, 110, 41, 32, 66, 79, 68, 89, 91, 72, 69, 65, 68, 69, 82, 46, 70, 73, 69, 76, 68, 83, 32, 40, 70, 82, 79, 77, 32, 83, 85, 66, 74, 69, 67, 84, 32, 68, 65, 84, 69, 41, 93, 32, 123, 52, 49, 125, 13, 10, 70, 114, 111, 109, 58, 32, 97, 64, 120, 46, 105, 111, 13, 10, 83, 117, 98, 106, 101, 99, 116, 58, 32, 104, 105, 13, 10, 68, 97, 116, 101, 58, 32, 100, 49, 13, 10, 13, 10, 41, 13, 10>>,
    \* an unread message, UID 8, with an encoded subject:
    \* * 2 FETCH (UID 8 FLAGS () BODY[HEADER.FIELDS (FROM SUBJECT DATE)] {31}\r\nSubject: =?utf-8?B?aGk=?=\r\n\r\n)\r\n
    <<42, 32, 50, 32, 70, 69, 84, 67, 72, 32, 40, 85, 73, 68, 32, 56, 32, 70, 76, 65, 71, 83, 32, 40, 41, 32, 66, 79, 68, 89, 91, 72, 69, 65, 68, 69, 82, 46, 70, 73, 69, 76, 68, 83, 32, 40, 70, 82, 79, 77, 32, 83, 85, 66, 74, 69, 67, 84, 32, 68, 65, 84, 69, 41, 93, 32, 123, 51, 49, 125, 13, 10, 83, 117, 98, 106, 101, 99, 116, 58, 32, 61, 63, 117, 116, 102, 45, 56, 63, 66, 63, 97, 71, 107, 61, 63, 61, 13, 10, 13, 10, 41, 13, 10>>,
    \* a message whose data items come with FLAGS before UID:
    \* * 3 FETCH (FLAGS (\Seen) UID 9 BODY[HEADER.FIELDS (FROM SUBJECT DATE)] {15}\r\nSubject: yo\r\n\r\n)\r\n
    <<42, 32, 51, 32, 70, 69, 84, 67, 72, 32, 40, 70, 76, 65, 71, 83, 32, 40, 92, 83, 101, 101, 110, 41, 32, 85, 73, 68, 32, 57, 32, 66, 79, 68, 89, 91, 72, 69, 65, 68, 69, 82, 46, 70, 73, 69, 76, 68, 83, 32, 40, 70, 82, 79, 77, 32, 83, 85, 66, 74, 69, 67, 84, 32, 68, 65, 84, 69, 41, 93, 32, 123, 49, 53, 125, 13, 10, 83, 117, 98, 106, 101, 99, 116, 58, 32, 121, 111, 13, 10, 13, 10, 41, 13, 10>>,
    \* an untagged response that is no FETCH:
    \* * 4 EXISTS\r\n
    <<42, 32, 52, 32, 69, 88, 73, 83, 84, 83, 13, 10>>,
    \* an unsolicited flag update, which carries no UID:
    \* * 7 FETCH (FLAGS (\Seen))\r\n
    <<42, 32, 55, 32, 70, 69, 84, 67, 72, 32, 40, 70, 76, 65, 71, 83, 32, 40, 92, 83, 101, 101, 110, 41, 41, 13, 10>>,
    \* UID 10, the subject holds "* ":
    \* * 5 FETCH (UID 10 FLAGS () BODY[HEADER.FIELDS (FROM SUBJECT DATE)] {18}\r\nSubject: 5 * 2\r\n\r\n)\r\n
    <<42, 32, 53, 32, 70, 69, 84, 67, 72, 32, 40, 85, 73, 68, 32, 49, 48, 32, 70, 76, 65, 71, 83, 32, 40, 41, 32, 66, 79, 68, 89, 91, 72, 69, 65, 68, 69, 82, 46, 70, 73, 69, 76, 68, 83, 32, 40, 70, 82, 79, 77, 32, 83, 85, 66, 74, 69, 67, 84, 32, 68, 65, 84, 69, 41, 93, 32, 123, 49, 56, 125, 13, 10, 83, 117, 98, 106, 101, 99, 116, 58, 32, 53, 32, 42, 32, 50, 13, 10, 13, 10, 41, 13, 10>>,
    \* UID 11, the subject holds the text of a FETCH line:
    \* * 6 FETCH (UID 11 FLAGS () BODY[HEADER.FIELDS (FROM SUBJECT DATE)] {48}\r\nSubject: * 9 FETCH (UID 99 x\r\nFrom: b@x.io\r\n\r\n)\r\n
    <<42, 32, 54, 32, 70, 69, 84, 67, 72, 32, 40, 85, 73, 68, 32, 49, 49, 32, 70, 76, 65, 71, 83, 32, 40, 41, 32, 66, 79, 68, 89, 91, 72, 69, 65, 68, 69, 82, 46, 70, 73, 69, 76, 68, 83, 32, 40, 70, 82, 79, 77, 32, 83, 85, 66, 74, 69, 67, 84, 32, 68, 65, 84, 69, 41, 93, 32, 123, 52, 56, 125, 13, 10, 83, 117, 98, 106, 101, 99, 116, 58, 32, 42, 32, 57, 32, 70, 69, 84, 67, 72, 32, 40, 85, 73, 68, 32, 57, 57, 32, 120, 13, 10, 70, 114, 111, 109, 58, 32, 98, 64, 120, 46, 105, 111, 13, 10, 13, 10, 41, 13, 10>>
  }

\* "A003 OK FETCH completed\r\n", the line readUntilTag stops at.
FetchCompleted == <<65, 48, 48, 51, 32, 79, 75, 32, 70, 69, 84, 67, 72, 32, 99, 111, 109, 112, 108, 101, 116, 101, 100, 13, 10>>

MaxBlocks == 3

RECURSIVE Join(_)
Join(texts) == IF texts = <<>> THEN <<>> ELSE Head(texts) \o Join(Tail(texts))

\* GetMessages from the FETCH response on: messages := parseMessages(fetchResp).
ParseFetch ==
  /\ Idle
  /\ \E n \in 1..MaxBlocks : \E pieces \in [1..n -> FetchPieces] :
       FinishArgs("parseMessages", 1, Cur, "ok",
                  <<pieces, parseMessages(Join(pieces) \o FetchCompleted)>>)

NextFetch == ParseFetch \/ Return

SpecFetch == Init /\ [][NextFetch]_vars

\* ------------------------------- getToken / getIMAPToken: a token response
\* The refresh_token field of a response that has no error: the rotated
\* secret, or "" when the JSON carries no refresh_token (the field of
\* TokenResponse keeps its zero value).
ResponseSecrets == RotatedChoices \cup {""}

\* getToken or getIMAPToken from the successful response on: expiresAt,
\* UpdateToken with the fields of the response, UpdateStatus, cache write.
RefreshSucceeded(a) ==
  /\ Idle
  /\ issued < MaxIssued
  /\ \E scope \in Scopes, rt \in ResponseSecrets, e \in ExpiresInChoices :
       LET tok == [id |-> issued + 1, scope |-> scope]
           expiresAt == now + e
           s1 == UpdateToken([Cur EXCEPT !.issued = @ + 1], a, tok, rt, expiresAt)
           s2 == UpdateStatus(s1, a, "active", "")
           entry == [present |-> TRUE, token |-> tok, expiresAt |-> expiresAt]
           s3 == IF scope = "rest" THEN [s2 EXCEPT !.tokens[a] = entry]
                 ELSE [s2 EXCEPT !.imapTokens[a] = entry]
       IN FinishArgs("refresh", a, s3, "ok", <<rt, accounts[a].RefreshToken>>)

NextRotate ==
  \/ \E a \in Accounts : RefreshSucceeded(a)
  \/ Return
  \/ Tick

SpecRotate == Init /\ [][NextRotate]_vars

MaxTotal == 45
PageTotals == -1..MaxTotal
PageSkips == {0, 1, 20, 40, 44, 45, 60}
PageTops == {1, 20}

PagedGetMessages(a) ==
  \E total \in PageTotals, skip \in PageSkips, top \in PageTops :
    \E r \in IMAPGetMessagesOf(Cur, a, [id |-> 1, scope |-> "imap"], skip, top, {total}) :
      FinishArgs("IMAPService.GetMessages", a, r.s, IF r.ok THEN "imap" ELSE "error",
                 <<total, skip, top>>)

NextPage ==
  \/ \E a \in Accounts : PagedGetMessages(a)
  \/ Return

SpecPage == Init /\ [][NextPage]_vars

\* The pages of one folder, asked for one after the other: App.GetMessages
\* calls imapSvc.GetMessages(.., page*20, 20) and the folder holds `total`
\* messages throughout.  last.args is <<total, the ranges of pages 0, 1, ..>>.
MaxPages == 4

OpenFolder ==
  /\ Idle
  /\ \E total \in 0..MaxTotal :
       FinishArgs("pages", 1, Cur, "imap", <<total, <<>>>>)

FetchNextPage ==
  /\ last.op = "pages"
  /\ Len(last.args[2]) < MaxPages
  /\ last' = [last EXCEPT !.args =
                <<last.args[1],
                  Append(last.args[2],
                         FetchRange(last.args[1], Len(last.args[2]) * PageSize, PageSize))>>]
  /\ UNCHANGED <<now, tokens, imapTokens, accounts, pool, conns, issued, events>>
  /\ UNCHANGED <<procs, poolMu, wire, reader>>

NextBrowse == OpenFolder \/ FetchNextPage \/ Return

SpecBrowse == Init /\ [][NextBrowse]_vars

\* ============================================================ properties
\* What the handler in `last` did.
TokenReqs == {last.log.tokenReqs[i] : i \in 1..Len(last.log.tokenReqs)}
Refreshes == {last.log.refreshes[i] : i \in 1..Len(last.log.refreshes)}
RestCalls == last.log.rest
IMAPEvents == {last.log.imap[i] : i \in 1..Len(last.log.imap)}
MailOps == {"GetMailFolders", "GetMessages", "GetMessageDetail"}

\* The entry was usable at the time of the request.
UsableAt(expiresAt, t) == expiresAt > t + Margin
MemUsable(r) == r.mem0.present /\ UsableAt(r.mem0.expiresAt, last.at)
DbUsable(r) ==
  r.db0.AccessToken # NoToken /\ r.db0.TokenExpiresAt # NilTime /\ UsableAt(r.db0.TokenExpiresAt, last.at)

\* C1: a non-forced token request never returns a memory or persisted token
\* that expires within a minute of the request; when neither source is
\* usable the token comes from a remote refresh (or the request fails).
C1_NoStaleToken ==
  \A r \in TokenReqs :
    ~r.force =>
      /\ r.src = "memory" => MemUsable(r) /\ r.token = r.mem0.token /\ r.expiresAt = r.mem0.expiresAt
      /\ r.src = "persisted" => DbUsable(r) /\ r.token = r.db0.AccessToken
                                /\ r.expiresAt = r.db0.TokenExpiresAt
      /\ r.src \in {"memory", "persisted"} => UsableAt(r.expiresAt, last.at)
      /\ (~MemUsable(r) /\ ~DbUsable(r)) =>
           /\ r.src \in {"refresh", "error"}
           /\ \E f \in Refreshes : f.scope = r.scope /\ f.to >= f.from

\* A non-forced request finds an expired memory entry and an expired stored
\* token, and refreshes.
C1_Witness ==
  \E r \in TokenReqs :
    /\ ~r.force /\ r.scope = "rest"
    /\ r.mem0.present /\ ~MemUsable(r)
    /\ r.db0.AccessToken # NoToken /\ ~DbUsable(r)
    /\ r.src = "refresh"

\* C2: a mail handler that finds the account marked "imap" makes no REST call
\* and requests no REST-scope token; the three IMAP-capable handlers request
\* the IMAP-scope token only, and GetAttachments calls no transport at all.
C2_MarkedIMAPSkipsREST ==
  (last.op \in MailOps \cup {"GetAttachments"} /\ last.marker0 = "imap") =>
    /\ RestCalls = <<>>
    /\ \A r \in TokenReqs : r.scope = "imap"
    /\ \A f \in Refreshes : f.scope = "imap"
    /\ \A i \in 1..Len(last.log.endpointCalls) : last.log.endpointCalls[i].scope = "imap"
    /\ last.log.cleared = 0
    /\ last.result # "rest"
    /\ accounts[last.acct].Protocol = "imap"
    /\ last.op = "GetAttachments" =>
         /\ last.log = EmptyLog
         /\ last.result = "empty"

\* A marked account is served a message page over IMAP.
C2_Witness ==
  /\ last.op = "GetMessages"
  /\ last.marker0 = "imap"
  /\ last.result = "imap"
  /\ \E e \in IMAPEvents : e.ev = "FETCH" /\ e.out = "ok"

\* The IMAP service call of GetMailFolders succeeded: LIST was answered OK.
ListSucceeded == \E e \in IMAPEvents : e.ev = "LIST" /\ e.out = "ok"

C3_FallbackResult ==
  ( /\ last.op = "GetMailFolders"
    /\ last.marker0 # "imap"
    /\ Len(RestCalls) >= 1
    /\ \A i \in 1..Len(RestCalls) : RestCalls[i] = "unauthorized"
    /\ ListSucceeded ) =>
  /\ last.result = "imap"
  /\ accounts[last.acct].Protocol = "imap"
  /\ last.log.emitted = 1
  /\ events[last.acct] = 1

C3_MarkerStays ==
  \A a \in Accounts : accounts[a].Protocol = "imap" => accounts'[a].Protocol = "imap"

Acquire == last.log.imap[1]
PoolOps == {"IMAPService.GetMailFolders", "IMAPService.GetMessages", "IMAPService.GetMessage"}
EventsOf(kinds) == {i \in 1..Len(last.log.imap) : last.log.imap[i].ev \in kinds}
Commands == {"LIST", "STATUS", "SELECT", "FETCH", "UID FETCH"}

\* C4: an acquire that finds an entry for the account with the same token,
\* last used less than 5 minutes ago, returns that entry's connection: no
\* connection is created or closed, and the entry's last-use time is now.
C4_FreshSameTokenReused ==
  ( /\ last.op \in PoolOps
    /\ Acquire.pooled.present
    /\ Acquire.pooled.token = Acquire.token
    /\ last.at - Acquire.pooled.lastUsed < PoolFreshness ) =>
  LET c == Acquire.pooled.client IN
  /\ last.log.imap[2].ev = "reuse" /\ last.log.imap[2].conn = c
  /\ EventsOf({"create", "close", "remove"}) = {}
  /\ \A i \in EventsOf(Commands) : last.log.imap[i].conn = c
  /\ conns[c].open /\ conns[c].closeLog = <<>>
  /\ pool[last.acct] = [Acquire.pooled EXCEPT !.lastUsed = last.at]

\* An entry last used some minutes ago is acquired again with its token.
C4_Witness ==
  /\ last.op \in PoolOps
  /\ Acquire.pooled.present
  /\ Acquire.pooled.token = Acquire.token
  /\ Acquire.pooled.lastUsed < last.at
  /\ last.at - Acquire.pooled.lastUsed < PoolFreshness
  /\ last.log.imap[2].ev = "reuse"

\* C5: an acquire whose token differs from the pooled entry's token never
\* returns the pooled connection: that connection gets LOGOUT, then its socket
\* is closed, and the entry is removed before the replacement is created; the
\* connection returned is a new one authenticated with the supplied token.
C5_TokenMismatchReplaces ==
  ( /\ last.op \in PoolOps
    /\ Acquire.pooled.present
    /\ Acquire.pooled.token # Acquire.token ) =>
  LET old == Acquire.pooled.client IN
  /\ EventsOf({"reuse"}) = {}
  /\ last.log.imap[2].ev = "close" /\ last.log.imap[2].conn = old
  /\ last.log.imap[3].ev = "remove" /\ last.log.imap[3].conn = old
  /\ last.log.imap[4].ev = "create"
  /\ EventsOf({"create"}) = {4} /\ EventsOf({"close"}) = {2}
  /\ ~conns[old].open /\ conns[old].closeLog = <<"LOGOUT", "close">>
  /\ \A i \in EventsOf(Commands) : last.log.imap[i].conn # old
  /\ IF last.log.imap[4].out = "ok"
     THEN LET c == last.log.imap[4].conn IN
          /\ c # old
          /\ conns[c].open /\ conns[c].authed /\ conns[c].authTok = Acquire.token
          /\ pool[last.acct].present /\ pool[last.acct].client = c
          /\ pool[last.acct].token = Acquire.token
          /\ \A i \in EventsOf(Commands) : last.log.imap[i].conn = c
     ELSE /\ pool[last.acct] = NoPooled
          /\ EventsOf(Commands) = {}
          /\ last.result = "error"

\* A fresh pooled connection is replaced because the token changed.
C5_Witness ==
  /\ last.op \in PoolOps
  /\ Acquire.pooled.present
  /\ Acquire.pooled.token # Acquire.token
  /\ last.at - Acquire.pooled.lastUsed < PoolFreshness
  /\ last.log.imap[4].ev = "create" /\ last.log.imap[4].out = "ok"
  /\ last.result = "imap"

\* The token-cache entries of the account before and after the handler.
ForcedRefreshes == {i \in 1..Len(last.log.tokenReqs) : last.log.tokenReqs[i].force}
IMAPScopeRequested == \E r \in TokenReqs : r.scope = "imap"
RESTScopeRequested == \E r \in TokenReqs : r.scope = "rest"

\* C6 as stated: no handler or token function that only refreshes or
\* invalidates the REST-scope token changes the cached IMAP-scope token, and
\* none that only refreshes the IMAP-scope token changes the cached REST one.
C6_OtherScopeUntouched ==
  (last.op # "none") =>
    /\ ~IMAPScopeRequested => imapTokens[last.acct] = last.imapTokens0
    /\ (~RESTScopeRequested /\ last.log.cleared = 0) => tokens[last.acct] = last.tokens0

\* C6: a refresh or forced refresh of one scope leaves the cached token of the
\* other scope unchanged; the invalidation after a REST authorization error
\* (clearTokenCache) removes the cached tokens of both scopes.
C6_RefreshKeepsOtherScope ==
  (last.op # "none") =>
    /\ (~IMAPScopeRequested /\ last.log.cleared = 0) => imapTokens[last.acct] = last.imapTokens0
    /\ (~RESTScopeRequested /\ last.log.cleared = 0) => tokens[last.acct] = last.tokens0
    /\ (~IMAPScopeRequested /\ last.log.cleared > 0) => imapTokens[last.acct] = NoCache

\* A REST authorization error invalidates while an IMAP-scope token is cached,
\* and the forced REST refresh that follows succeeds.
C6_Witness ==
  /\ last.op = "GetAttachments"
  /\ last.imapTokens0.present
  /\ last.log.cleared = 1
  /\ \E r \in TokenReqs : r.force /\ r.src = "refresh"
  /\ ~IMAPScopeRequested

\* C7 as stated: a connection on which a read has failed is no longer in the pool.
C7_FailedReadLeavesPool ==
  (last.op = "none") =>
    \A a \in Accounts : pool[a].present => ~conns[pool[a].client].readFailed

\* The REST block of the handler in `last`.
RESTFailed == Len(RestCalls) = 0 \/ RestCalls[Len(RestCalls)] # "ok"
ForcedOk == \E r \in TokenReqs : r.force /\ r.src = "refresh"

\* C8 as stated: at most two REST calls and one forced refresh; a first
\* "unauthorized" gives one invalidation, one forced refresh and a second REST
\* call; a second REST failure goes on to the IMAP transport.
C8_RetryThenLegacy ==
  (last.op \in MailOps \cup {"GetAttachments"} /\ last.marker0 # "imap") =>
    /\ Len(RestCalls) <= 2
    /\ Cardinality(ForcedRefreshes) <= 1
    /\ (Len(RestCalls) >= 1 /\ RestCalls[1] = "unauthorized") =>
         /\ last.log.cleared = 1
         /\ Cardinality(ForcedRefreshes) = 1
         /\ Len(RestCalls) = 2
    /\ (Len(RestCalls) = 2 /\ RestCalls[2] # "ok") => IMAPScopeRequested

\* C8: at most two REST calls and one forced refresh per handler; a first
\* "unauthorized" gives one invalidation and one forced refresh, and a second
\* REST call exactly when that refresh succeeded; any other first failure is
\* not retried.  After the REST block failed, GetMailFolders, GetMessages and
\* GetMessageDetail go on to the IMAP transport; GetAttachments returns an
\* empty list without it.
C8_RetryOnceAfterRefresh ==
  (last.op \in MailOps \cup {"GetAttachments"} /\ last.marker0 # "imap") =>
    /\ Len(RestCalls) <= 2
    /\ Cardinality(ForcedRefreshes) <= 1
    /\ (Len(RestCalls) >= 1 /\ RestCalls[1] = "unauthorized") =>
         /\ last.log.cleared = 1
         /\ Cardinality(ForcedRefreshes) = 1
         /\ Len(RestCalls) = 2 <=> ForcedOk
    /\ (Len(RestCalls) = 0 \/ RestCalls[1] # "unauthorized") =>
         /\ last.log.cleared = 0
         /\ ForcedRefreshes = {}
         /\ Len(RestCalls) <= 1
    /\ RESTFailed =>
         IF last.op = "GetAttachments"
         THEN ~IMAPScopeRequested /\ IMAPEvents = {} /\ last.result = "empty"
         ELSE IMAPScopeRequested /\ last.result \in {"imap", "error"}
    /\ ~RESTFailed => ~IMAPScopeRequested /\ IMAPEvents = {} /\ last.result = "rest"

\* The retry after a successful forced refresh fails again and the handler
\* goes on to IMAP.
C8_Witness ==
  /\ last.op = "GetMessages"
  /\ RestCalls = <<"unauthorized", "api error">>
  /\ last.log.cleared = 1
  /\ ForcedOk
  /\ last.result = "imap"

\* C9 as stated: a non-forced request of either scope that finds no usable
\* memory entry and a usable stored token returns the stored token, adopts it
\* into the memory cache and makes no refresh.
C9_PersistedAdopted ==
  (last.op \in {"getToken", "getIMAPToken"}) =>
    \A r \in TokenReqs :
      (~r.force /\ ~MemUsable(r) /\ DbUsable(r)) =>
        /\ r.src = "persisted"
        /\ r.token = r.db0.AccessToken
        /\ Refreshes = {}
        /\ LET mem == IF r.scope = "rest" THEN tokens[last.acct] ELSE imapTokens[last.acct]
           IN mem = [present |-> TRUE, token |-> r.db0.AccessToken, expiresAt |-> r.db0.TokenExpiresAt]

\* C9: for the REST scope, a non-forced request that finds no usable memory
\* entry and a usable stored token returns the stored token, adopts it into the
\* memory cache and makes no refresh; for the IMAP scope the stored token is
\* never consulted: without a usable memory entry the request always refreshes.
C9_PersistedAdoptedRESTOnly ==
  (last.op \in {"getToken", "getIMAPToken"}) =>
    \A r \in TokenReqs :
      /\ (r.scope = "rest" /\ ~r.force /\ ~MemUsable(r) /\ DbUsable(r)) =>
           /\ r.src = "persisted"
           /\ r.token = r.db0.AccessToken
           /\ Refreshes = {}
           /\ last.log.endpointCalls = <<>>
           /\ tokens[last.acct] = [present |-> TRUE, token |-> r.db0.AccessToken,
                                   expiresAt |-> r.db0.TokenExpiresAt]
           /\ accounts[last.acct].AccessToken = r.db0.AccessToken
      /\ (r.scope = "imap" /\ ~r.force /\ ~MemUsable(r)) =>
           /\ r.src \in {"refresh", "error"}
           /\ Cardinality(Refreshes) = 1

\* After the memory cache was cleared, the REST-scope request is served from
\* the stored token.
C9_Witness ==
  /\ last.op = "getToken"
  /\ \E r \in TokenReqs :
       /\ r.scope = "rest" /\ ~r.force
       /\ ~r.mem0.present /\ DbUsable(r)
       /\ r.src = "persisted"

\* C10: a refresh calls the "consumers" endpoint first; it calls the "common"
\* endpoint, once, exactly when the first call failed with invalid_grant, and
\* then returns that call's outcome; otherwise it returns the first outcome.
C10_TenantFallback ==
  \A f \in Refreshes :
    LET calls == SubSeq(last.log.endpointCalls, f.from, f.to) IN
    /\ Len(calls) \in {1, 2}
    /\ calls[1].tenant = "consumers"
    /\ \A i \in 1..Len(calls) : calls[i].scope = f.scope
    /\ Len(calls) = 2 <=> calls[1].out = "invalid_grant"
    /\ Len(calls) = 2 => calls[2].tenant = "common"
    /\ f.ret = calls[Len(calls)].out

\* invalid_grant at "consumers", then a token from "common".
C10_Witness ==
  \E f \in Refreshes :
    /\ f.to = f.from + 1
    /\ last.log.endpointCalls[f.from].out = "invalid_grant"
    /\ last.log.endpointCalls[f.to].tenant = "common"
    /\ f.ret = "ok"

\* The FETCH commands of the call in `last`.
Fetches == {e \in IMAPEvents : e.ev = "FETCH"}
SelectOk == \E e \in IMAPEvents : e.ev = "SELECT" /\ e.out = "ok"
Max(x, y) == IF x > y THEN x ELSE y

\* C11: GetMessages(skip, top) on a folder of total messages whose SELECT
\* succeeded issues one FETCH, of the range [max(1, total-skip-top+1),
\* total-skip], when total >= 1 and total - skip >= 1; otherwise (no or zero
\* EXISTS, or total - skip < 1) it issues no FETCH and returns an empty list.
C11_FetchRange ==
  (last.op = "IMAPService.GetMessages" /\ last.args # <<>> /\ SelectOk) =>
    LET total == last.args[1]
        skip == last.args[2]
        top == last.args[3]
    IN IF total >= 1 /\ total - skip >= 1
       THEN /\ Cardinality(Fetches) = 1
            /\ \A e \in Fetches : e.args = <<Max(1, total - skip - top + 1), total - skip>>
            /\ \A e \in Fetches : e.args[1] >= 1 /\ e.args[1] <= e.args[2] /\ e.args[2] <= total
            /\ \A e \in Fetches : e.args[2] - e.args[1] + 1 <= top
       ELSE Fetches = {} /\ last.result = "imap"

\* The third page of 45 messages, 20 a page: the start is clamped to 1.
C11_Witness ==
  /\ last.op = "IMAPService.GetMessages"
  /\ last.args = <<45, 40, 20>>
  /\ \E e \in Fetches : e.args = <<1, 5>> /\ e.out = "ok"

\* C12: an acquire that finds an entry last used 5 minutes ago or earlier
\* never returns its connection, whatever the token: the connection gets
\* LOGOUT, then its socket is closed, and the entry is removed before the
\* replacement is created.
C12_StaleEntryReplaced ==
  ( /\ last.op \in PoolOps
    /\ Acquire.pooled.present
    /\ last.at - Acquire.pooled.lastUsed >= PoolFreshness ) =>
  LET old == Acquire.pooled.client IN
  /\ EventsOf({"reuse"}) = {}
  /\ last.log.imap[2].ev = "close" /\ last.log.imap[2].conn = old
  /\ last.log.imap[3].ev = "remove" /\ last.log.imap[3].conn = old
  /\ last.log.imap[4].ev = "create"
  /\ EventsOf({"create"}) = {4} /\ EventsOf({"close"}) = {2} /\ EventsOf({"remove"}) = {3}
  /\ ~conns[old].open /\ conns[old].closeLog = <<"LOGOUT", "close">>
  /\ \A i \in EventsOf(Commands) : last.log.imap[i].conn # old
  /\ pool[last.acct].present => pool[last.acct].client # old /\ pool[last.acct].lastUsed = last.at

\* An entry last used exactly 5 minutes ago is acquired with its own token
\* and replaced.
C12_Witness ==
  /\ last.op \in PoolOps
  /\ Acquire.pooled.present
  /\ Acquire.pooled.token = Acquire.token
  /\ last.at - Acquire.pooled.lastUsed = PoolFreshness
  /\ last.log.imap[4].ev = "create" /\ last.log.imap[4].out = "ok"
  /\ pool[last.acct].present

\* The connections of account a that are open.
OpenConns(a) == {c \in 1..Len(conns) : conns[c].owner = a /\ conns[c].open}

\* C13: in every state each account has at most one open connection made by
\* the pool, and that connection is the one of the account's pool entry.
C13_OneOpenConnPerAccount ==
  \A a \in Accounts :
    /\ Cardinality(OpenConns(a)) <= 1
    /\ OpenConns(a) = IF pool[a].present THEN {pool[a].client} ELSE {}

\* A second connection of the account is pooled after the first was closed.
C13_Witness ==
  \E a \in Accounts :
    /\ pool[a].present /\ pool[a].client = 2
    /\ conns[1].owner = a /\ ~conns[1].open
    /\ conns[2].owner = a /\ conns[2].open

\* The sockets dialed by the call in `last`.
Sockets == {last.log.sockets[i] : i \in 1..Len(last.log.sockets)}

\* C14: a socket whose greeting read or AUTHENTICATE failed is closed, gives
\* no client and leaves the account without a pool entry; every connection in
\* the pool was dialed, greeted and authenticated with the entry's token.
C14_OnlyAuthenticatedPooled ==
  /\ \A a \in Accounts :
       pool[a].present =>
         LET c == conns[pool[a].client] IN
         c.authed /\ c.open /\ c.owner = a /\ c.authTok = pool[a].token
  /\ \A k \in Sockets :
       /\ (k.dialed /\ ~(k.greeted /\ k.authed)) =>
            /\ k.closed /\ k.client = 0
            /\ ~pool[last.acct].present
            /\ last.result = "error"
       /\ k.client # 0 =>
            /\ k.dialed /\ k.greeted /\ k.authed /\ ~k.closed
            /\ pool[last.acct].present /\ pool[last.acct].client = k.client

\* The replacement for a pooled connection is refused at AUTHENTICATE.
C14_Witness ==
  /\ last.op \in PoolOps
  /\ Acquire.pooled.present
  /\ \E k \in Sockets : k.greeted /\ ~k.authed /\ k.closed
  /\ ~pool[last.acct].present

TokenOps == {"getToken", "getIMAPToken", "CheckAccountToken"}
MemOf(scope) == IF scope = "rest" THEN tokens[last.acct] ELSE imapTokens[last.acct]

\* C15: after a token request that refreshed successfully, the account holds
\* the access token, the refresh token and the expiry (now + expires_in) of the
\* endpoint's answer, its status is "active" with no error, the memory entry of
\* the scope is that token with that expiry, and the token is what is returned.
C15_RefreshSuccessStored ==
  (last.op \in TokenOps) =>
    \A r \in TokenReqs : \A f \in Refreshes :
      (r.src = "refresh" \/ f.ret = "ok") =>
        LET resp == last.log.endpointCalls[f.to]
            acc == accounts[last.acct]
        IN /\ r.src = "refresh" /\ f.ret = "ok" /\ resp.out = "ok"
           /\ last.result \in {"token", "valid"}
           /\ r.token = resp.AccessToken
           /\ acc.AccessToken = resp.AccessToken
           /\ acc.RefreshToken = resp.RefreshToken
           /\ acc.TokenExpiresAt = last.at + resp.ExpiresIn
           /\ acc.Status = "active" /\ acc.LastError = ""
           /\ MemOf(r.scope) = [present |-> TRUE, token |-> resp.AccessToken,
                                expiresAt |-> last.at + resp.ExpiresIn]

\* A later refresh of the IMAP scope replaces a cached token and the stored one.
C15_Witness ==
  /\ last.op = "getIMAPToken"
  /\ last.imapTokens0.present
  /\ \E r \in TokenReqs :
       /\ r.src = "refresh" /\ r.db0.AccessToken # NoToken
       /\ r.token # r.db0.AccessToken
       /\ accounts[last.acct].AccessToken = r.token
       /\ accounts[last.acct].TokenExpiresAt > r.db0.TokenExpiresAt
  /\ accounts[last.acct].RefreshToken = "rt1"

\* C16: a token request whose refresh failed returns the error, leaves the
\* account with status "error" and the endpoint's error as last error, and
\* changes neither the memory entries nor the stored access token, refresh
\* token and expiry.
C16_RefreshFailureKeepsTokens ==
  (last.op \in TokenOps) =>
    \A r \in TokenReqs : \A f \in Refreshes :
      (r.src = "error" \/ f.ret # "ok") =>
        LET acc == accounts[last.acct] IN
        /\ r.src = "error" /\ f.ret \in RefreshErrors
        /\ last.log.endpointCalls[f.to].out = f.ret
        /\ last.result = "error"
        /\ acc.Status = "error" /\ acc.LastError = f.ret
        /\ acc.AccessToken = r.db0.AccessToken
        /\ acc.TokenExpiresAt = r.db0.TokenExpiresAt
        /\ acc.RefreshToken = r.db0.RefreshToken
        /\ tokens[last.acct] = last.tokens0
        /\ imapTokens[last.acct] = last.imapTokens0

\* A forced refresh fails while a token is cached and stored.
C16_Witness ==
  /\ last.op = "CheckAccountToken"
  /\ last.result = "error"
  /\ last.tokens0.present
  /\ tokens[last.acct].present
  /\ accounts[last.acct].AccessToken # NoToken
  /\ accounts[last.acct].Status = "error"

\* The REST-scope refresh of the handler in `last` was rejected (invalid_grant).
RESTRefreshRejected == \E f \in Refreshes : f.scope = "rest" /\ f.ret = "invalid_grant"
RefreshIndexes(scope) == {i \in 1..Len(last.log.refreshes) : last.log.refreshes[i].scope = scope}
IMAPCallOk ==
  \E e \in IMAPEvents : e.out = "ok" /\
    e.ev = (CASE last.op = "GetMailFolders" -> "LIST"
              [] last.op = "GetMessages" -> "SELECT"
              [] OTHER -> "UID FETCH")

\* C17 as stated: a handler whose REST-scope refresh was rejected returns that
\* error, makes no other refresh and does not use IMAP.
C17_RejectionSurfaced ==
  (last.op \in MailOps \cup {"GetAttachments", "CheckAccountToken"} /\ RESTRefreshRejected) =>
    /\ last.result = "error"
    /\ Cardinality(Refreshes) = 1
    /\ ~IMAPScopeRequested
    /\ IMAPEvents = {}

\* C17: after a rejected REST-scope refresh a handler makes no other
\* REST-scope refresh and no further REST call.  CheckAccountToken returns the
\* error as it is; GetAttachments returns an empty list; GetMailFolders,
\* GetMessages and GetMessageDetail do not return the error but go on to IMAP:
\* they request the IMAP-scope token (a refresh when none is cached) and return
\* what the IMAP attempt gives.
C17_RejectionFallsBack ==
  (last.op \in MailOps \cup {"GetAttachments", "CheckAccountToken"} /\ RESTRefreshRejected) =>
    LET rejected == CHOOSE i \in RefreshIndexes("rest") : last.log.refreshes[i].ret = "invalid_grant"
    IN
    /\ \A i \in RefreshIndexes("rest") : i <= rejected
    /\ RESTFailed
    /\ RestCalls \in {<<>>, <<"unauthorized">>}
    /\ last.log.refreshes[rejected].force <=> (RestCalls = <<"unauthorized">> \/ last.op = "CheckAccountToken")
    /\ last.op = "CheckAccountToken" =>
         /\ last.result = "error"
         /\ accounts[last.acct].Status = "error" /\ accounts[last.acct].LastError = "invalid_grant"
         /\ ~IMAPScopeRequested /\ IMAPEvents = {}
    /\ last.op = "GetAttachments" =>
         /\ last.result = "empty"
         /\ ~IMAPScopeRequested /\ IMAPEvents = {}
    /\ last.op \in MailOps =>
         /\ Cardinality({r \in TokenReqs : r.scope = "imap"}) = 1
         /\ \A r \in TokenReqs : r.scope = "imap" => r.src \in {"memory", "refresh", "error"}
         /\ last.result = IF IMAPCallOk /\ (last.op # "GetMessages" \/ Fetches = {} \/
                                              \E e \in Fetches : e.out = "ok")
                          THEN "imap" ELSE "error"

\* The REST-scope refresh is rejected, the IMAP-scope refresh is granted and
\* the folders are listed over IMAP.
C17_Witness ==
  /\ last.op = "GetMailFolders"
  /\ RESTRefreshRejected
  /\ RestCalls = <<>>
  /\ \E f \in Refreshes : f.scope = "imap" /\ f.ret = "ok"
  /\ last.result = "imap"

\* C18: a handler on an unmarked account whose first REST call succeeds
\* returns the REST result after that one call; it requests no IMAP-scope
\* token, uses no IMAP connection, emits no event and leaves the marker and
\* the cached IMAP-scope token as they were.
C18_RESTSuccessFrame ==
  ( /\ last.op \in MailOps \cup {"GetAttachments"}
    /\ last.marker0 # "imap"
    /\ Len(RestCalls) >= 1 /\ RestCalls[1] = "ok" ) =>
  /\ last.result = "rest"
  /\ RestCalls = <<"ok">>
  /\ ~IMAPScopeRequested
  /\ \A f \in Refreshes : f.scope = "rest"
  /\ IMAPEvents = {} /\ Sockets = {}
  /\ last.log.cleared = 0 /\ last.log.emitted = 0
  /\ accounts[last.acct].Protocol = last.marker0
  /\ imapTokens[last.acct] = last.imapTokens0

\* A message is read over REST at the first attempt.
C18_Witness ==
  /\ last.op = "GetMessageDetail"
  /\ last.marker0 = ""
  /\ RestCalls = <<"ok">>
  /\ last.result = "rest"
  /\ accounts[last.acct].Protocol = ""

\* The IMAP service call of the handler in `last` returned without error.
LegacyOk ==
  /\ IMAPCallOk
  /\ last.op = "GetMessages" => (Fetches = {} \/ \E e \in Fetches : e.out = "ok")

\* C19: on an unmarked account, when REST failed and the IMAP attempt failed
\* as well (no IMAP-scope token, or the IMAP call returned an error), the
\* handler returns the error, leaves the marker as it was and emits no event;
\* the marker changes only in a handler whose IMAP call succeeded.
C19_BothFailFrame ==
  /\ ( /\ last.op \in MailOps
       /\ last.marker0 # "imap"
       /\ RESTFailed
       /\ ~LegacyOk ) =>
     /\ last.result = "error"
     /\ accounts[last.acct].Protocol = last.marker0
     /\ last.log.emitted = 0
     /\ events[last.acct] = 0
  /\ (last.op # "none" /\ accounts[last.acct].Protocol # last.marker0) =>
     /\ last.op \in MailOps
     /\ LegacyOk
     /\ last.result = "imap"
     /\ accounts[last.acct].Protocol = "imap"

\* REST failed, the IMAP-scope token was obtained, and the IMAP call failed.
C19_Witness ==
  /\ last.op = "GetMessageDetail"
  /\ last.marker0 = ""
  /\ RESTFailed /\ Len(RestCalls) >= 1
  /\ \E r \in TokenReqs : r.scope = "imap" /\ r.src # "error"
  /\ IMAPEvents # {}
  /\ ~LegacyOk
  /\ last.result = "error"
  /\ accounts[last.acct].Protocol = ""

\* REST failed and no IMAP-scope token could be obtained.
C19_WitnessNoToken ==
  /\ last.op = "GetMailFolders"
  /\ last.marker0 = ""
  /\ RESTFailed
  /\ \E r \in TokenReqs : r.scope = "imap" /\ r.src = "error"
  /\ IMAPEvents = {}
  /\ last.result = "error"

\* C20: an account whose marker is "imap" keeps that marker in every step
\* the application takes.
C20_MarkerNeverReset ==
  [][\A a \in Accounts : accounts[a].Protocol = "imap" => accounts'[a].Protocol = "imap"]_vars

\* The account was marked "imap" by a fallback and its line is imported again.
C20_Reimported ==
  /\ last.op = "ImportAccounts"
  /\ last.marker0 = "imap"
  /\ last.args = <<1>>
  /\ accounts[last.acct].Protocol = ""

\* The tagged line of the command among the lines read, "" when none was read.
TaggedStatus ==
  IF \E i \in 1..Len(reader.result) : reader.result[i].tag = "own"
  THEN (CHOOSE l \in TaggedLines : \E i \in 1..Len(reader.result) : reader.result[i] = l).status
  ELSE ""

\* C21: a command that returned without a read or write error has read the
\* line that starts with its own tag; it returned success exactly when that
\* line is OK and the IMAP error exactly when it is NO or BAD.
C21_TaggedLineDecides ==
  (reader.phase = "returned" /\ reader.err \notin {"read error", "write error"}) =>
    /\ TaggedStatus # ""
    /\ reader.err = "" <=> TaggedStatus = "OK"
    /\ reader.err = "IMAP error" <=> TaggedStatus \in {"NO", "BAD"}

\* A fetched body quotes "<tag> NO"; the command returns the IMAP error
\* before the tagged line has been read.
C21_QuotedStatusReturned ==
  /\ reader.phase = "returned"
  /\ reader.result = <<DataLine, [tag |-> "*", status |-> "", quotes |-> "NO"]>>
  /\ reader.err = "IMAP error"

\* C22: CheckAccountToken makes one forced REST-scope token request that
\* calls the token endpoint whatever is cached or stored; it returns valid
\* exactly when the refresh succeeded, and then the REST-scope memory entry is
\* the token and expiry of the endpoint's answer; after a failed refresh the
\* entry is as before.
C22_CheckForcesRefresh ==
  (last.op = "CheckAccountToken") =>
    /\ Len(last.log.tokenReqs) = 1
    /\ Len(last.log.refreshes) = 1
    /\ Len(last.log.endpointCalls) >= 1
    /\ LET r == last.log.tokenReqs[1]
           f == last.log.refreshes[1]
           resp == last.log.endpointCalls[f.to]
       IN /\ r.scope = "rest" /\ r.force /\ f.force /\ f.scope = "rest"
          /\ r.src \in {"refresh", "error"}
          /\ last.result \in {"valid", "error"}
          /\ last.result = "valid" <=> f.ret = "ok"
          /\ f.ret = "ok" <=> resp.out = "ok"
          /\ last.result = "valid" =>
               /\ tokens[last.acct] = [present |-> TRUE, token |-> resp.AccessToken,
                                       expiresAt |-> last.at + resp.ExpiresIn]
               /\ resp.AccessToken # last.tokens0.token
               /\ resp.AccessToken # r.db0.AccessToken
          /\ last.result = "error" => tokens[last.acct] = last.tokens0

\* A usable token is cached and stored, and the check still refreshes and
\* replaces it.
C22_Witness ==
  /\ last.op = "CheckAccountToken"
  /\ last.tokens0.present
  /\ last.tokens0.expiresAt > last.at + Margin
  /\ last.log.tokenReqs[1].db0.AccessToken = last.tokens0.token
  /\ last.log.tokenReqs[1].db0.TokenExpiresAt > last.at + Margin
  /\ last.result = "valid"
  /\ tokens[last.acct].present
  /\ tokens[last.acct].token # last.tokens0.token

\* The decoder of the specification: the declared transfer encoding alone
\* selects one decoding.
ReferenceDecode(header, body) ==
  LET cte == ToLower(header.declared)
      qp == QPDecode(body)
      b64 == B64Decode(StripLineBreaks(body))
  IN TrimSpace(IF cte = "quoted-printable" THEN (IF qp.ok THEN qp.bytes ELSE body)
               ELSE IF cte = "base64" THEN (IF b64.ok THEN b64.bytes ELSE body)
               ELSE body)

\* C23: decodeContent returns what the reference decoder returns: the
\* quoted-printable decoding of a body declared quoted-printable, else the
\* base64 decoding of a body declared base64, else the body, trimmed.
C23_EqualsReference ==
  (last.op = "decodeContent") => last.args[3] = ReferenceDecode(last.args[1], last.args[2])

\* A part declared quoted-printable whose header also holds the word base64:
\* the body "YWJj" comes out as "abc".
C23_DecodedTwice ==
  /\ last.op = "decodeContent"
  /\ last.args[1] = [declared |-> "quoted-printable", mentions |-> {"base64"}]
  /\ last.args[2] = <<89, 87, 74, 106>>
  /\ last.args[3] = <<97, 98, 99>>

\* Declared encodings decode as the specification's examples say.
C23_Examples ==
  /\ decodeContent([declared |-> "quoted-printable", mentions |-> {}], <<97, 61, 48, 65, 98>>) = <<97, 10, 98>>
  /\ decodeContent([declared |-> "base64", mentions |-> {}],
                   <<89, 87, 74, 106, 13, 10, 90, 71, 86, 109>>) = <<97, 98, 99, 100, 101, 102>>
  /\ decodeContent([declared |-> "7bit", mentions |-> {}], <<32, 104, 105, 13, 10>>) = <<104, 105>>
  /\ decodeContent([declared |-> "Quoted-Printable", mentions |-> {}], <<97, 98, 61, 13, 10, 99, 100>>)
       = <<97, 98, 99, 100>>
  /\ decodeContent([declared |-> "quoted-printable", mentions |-> {}], <<97, 61, 52>>) = <<97, 61, 52>>
  /\ decodeContent([declared |-> "BASE64", mentions |-> {}], <<89, 81, 61, 61>>) = <<97>>

C25_OneUserPerConnection ==
  /\ \A c \in 1..Len(wire) : Cardinality(wire[c].inflight) <= 1
  /\ \A c \in 1..Len(wire) : wire[c].loggedOutUnder = {}
  /\ \A p \in Procs : procs[p].pc \in {"load", "write", "read"} => conns[procs[p].client].open

\* Two goroutines of one account with the same token wait for a response on
\* the same connection.
C25_TwoInFlight ==
  \E c \in 1..Len(wire) : wire[c].inflight = {1, 2}

\* A goroutine with another token replaced the connection that the first one
\* is still using.
C25_ClosedUnderUser ==
  \E p \in Procs : /\ procs[p].pc = "read"
                   /\ ~conns[procs[p].client].open
                   /\ wire[procs[p].client].loggedOutUnder = {p}

\* C26: while one goroutine is inside getClient on the network (dial,
\* greeting, AUTHENTICATE, or the LOGOUT of a replaced entry), a goroutine
\* that calls getClient for another account can enter it.
C26_OtherAccountEnters ==
  \A p, q \in Procs :
    ( /\ procs[p].pc = "getClient" /\ procs[p].blocking
      /\ procs[q].pc = "lock"
      /\ procs[q].email # procs[p].email ) => ENABLED getClientLock(q)

\* One goroutine dials for account 1 and holds the lock; another waits at
\* the lock for account 2.
C26_WaitsBehindOtherAccount ==
  /\ procs[1].pc = "getClient" /\ procs[1].blocking /\ procs[1].email = 1
  /\ procs[2].pc = "lock" /\ procs[2].email = 2
  /\ poolMu = 1
  /\ ~ENABLED getClientLock(2)

\* C27: GetMessage sends UID FETCH only after its SELECT was answered OK;
\* when the SELECT is refused or its read fails, GetMessage returns the error
\* and sends no UID FETCH.
C27_FetchNeedsSelect ==
  (last.op = "IMAPService.GetMessage") =>
    /\ \A j \in EventsOf({"UID FETCH"}) :
         \E i \in EventsOf({"SELECT"}) : i < j /\ last.log.imap[i].out = "ok"
    /\ \A i \in EventsOf({"SELECT"}) :
         last.log.imap[i].out # "ok" => last.result = "error"

\* On a reused connection the SELECT is refused, the UID FETCH is sent all
\* the same and its result is returned.
C27_FetchedAfterRefusedSelect ==
  /\ last.op = "IMAPService.GetMessage"
  /\ \E i \in EventsOf({"reuse"}) : TRUE
  /\ \E i \in EventsOf({"SELECT"}) : last.log.imap[i].out = "no"
  /\ \E j \in EventsOf({"UID FETCH"}) : last.log.imap[j].out = "ok"
  /\ last.result = "imap"

\* The number a tag's digits spell.
RECURSIVE TagValue(_)
TagValue(d) == IF d = <<>> THEN 0 ELSE TagValue(SubSeq(d, 1, Len(d) - 1)) * 10 + d[Len(d)]

\* C28: on every connection each command's tag is greater than the tags of
\* all commands written before it, so no two commands share a tag.
C28_TagsIncrease ==
  \A c \in 1..Len(wire) :
    \A i, j \in 1..Len(wire[c].sent) :
      i < j => TagValue(wire[c].sent[i]) < TagValue(wire[c].sent[j])

\* Both goroutines read tagNum = 1 before either wrote it back: two commands
\* go out as A002.
C28_SameTagTwice ==
  \E c \in 1..Len(wire) :
    /\ Len(wire[c].sent) = 3
    /\ wire[c].sent[2] = <<0, 0, 2>>
    /\ wire[c].sent[3] = <<0, 0, 2>>
    /\ wire[c].inflight = {1, 2}

\* C29: a command that is reading its response eventually returns.
C29_CommandReturns == (reader.phase = "reading") ~> (reader.phase = "returned")

\* The loop has taken data twice and still waits for the tagged line.
C29_StillReading ==
  /\ reader.phase = "reading"
  /\ reader.result = <<DataLine>>
  /\ reader.reads = 0

\* The pairs that the calls under way or finished have put together, each
\* from one refresh response or from one persisted row.
PairsHeld(scope) ==
  {procs[p].pair : p \in {q \in Procs : procs[q].scope = scope /\ procs[q].pair # NoPair}}

Finished == \A p \in Procs : procs[p].pc = "done"

\* C30: under concurrent refreshes of one account and scope, every cache
\* entry that can be read is the complete (token, expiry) pair that one
\* single refresh or adoption wrote, and once all calls have finished the
\* entry is the pair of the last writer.
C30_EntryIsOneWritersPair ==
  \A a \in Accounts :
    /\ tokens[a].present =>
         [token |-> tokens[a].token, expiresAt |-> tokens[a].expiresAt] \in PairsHeld("rest")
    /\ imapTokens[a].present =>
         [token |-> imapTokens[a].token, expiresAt |-> imapTokens[a].expiresAt] \in PairsHeld("imap")
    /\ (Finished /\ last.op = "cache write") =>
         /\ last.args[1] # NoPair =>
              tokens[a] = [present |-> TRUE, token |-> last.args[1].token,
                           expiresAt |-> last.args[1].expiresAt]
         /\ last.args[2] # NoPair =>
              imapTokens[a] = [present |-> TRUE, token |-> last.args[2].token,
                               expiresAt |-> last.args[2].expiresAt]

\* Two refreshes of the same scope have both written, with different tokens
\* and different expiries, and both calls have finished.
C30_TwoWritersFinished ==
  /\ Finished
  /\ procs[1].scope = "rest" /\ procs[2].scope = "rest"
  /\ procs[1].pair # NoPair /\ procs[2].pair # NoPair
  /\ procs[1].pair.token # procs[2].pair.token
  /\ procs[1].pair.expiresAt # procs[2].pair.expiresAt
  /\ procs[1].err = "" /\ procs[2].err = ""
  /\ tokens[1].present

\* A folder line as the parser expects it: "* LIST (flags) \"/\" name".
\* Its name is the text after the delimiter, without blanks and quotes.
WellFormedLine(line) == HasPrefix(line, ListPrefix) /\ LastIndex(line, SlashDelimiter) # -1
NameOfLine(line) ==
  TrimQuotes(TrimSpace(SubSeq(line, LastIndex(line, SlashDelimiter) + 5, Len(line))))

RECURSIVE WellFormedNames(_)
WellFormedNames(lines) ==
  IF lines = <<>> THEN <<>>
  ELSE IF WellFormedLine(Head(lines))
       THEN <<NameOfLine(Head(lines))>> \o WellFormedNames(Tail(lines))
       ELSE WellFormedNames(Tail(lines))

\* C31: listing the folders over IMAP skips every response line that does
\* not match the folder-line pattern, without failing, and returns the
\* folders of all well-formed lines.
C31_MalformedLinesSkipped ==
  last.op = "GetMailFolders" =>
    /\ last.result = "ok"
    /\ [i \in 1..Len(last.args[2]) |-> last.args[2][i].imapName] = WellFormedNames(last.args[1])

\* A LIST line with another delimiter has made the call panic.
C31_Panicked ==
  /\ last.op = "GetMailFolders"
  /\ last.result = "panic"
  /\ \E i \in 1..Len(last.args[1]) : WellFormedLine(last.args[1][i])

\* A LIST line with another delimiter has been returned as a folder whose
\* name lacks its first two characters.
C31_BogusFolder ==
  /\ last.op = "GetMailFolders"
  /\ last.result = "ok"
  /\ \E i \in 1..Len(last.args[2]) : last.args[2][i].imapName = <<99, 104, 105, 118, 101>>

\* C33: listing the folders over IMAP sends a STATUS command for a folder
\* exactly when its mapped id is inbox or junkemail; every other folder is
\* returned with zero counts and without a command of its own.
C33_StatusOnlyForInboxAndJunk ==
  (last.op = "GetMailFolders" /\ last.result = "ok") =>
    \A i \in 1..Len(last.args[2]) :
      LET f == last.args[2][i]
          asked == i \in last.args[3]
      IN /\ asked <=> f.ID \in {<<105, 110, 98, 111, 120>>, <<106, 117, 110, 107, 101, 109, 97, 105, 108>>}
         /\ ~asked => (f.TotalItemCount = 0 /\ f.UnreadItemCount = 0)

\* A listing with a counted junk folder (listed as "Junk E-mail") next to a
\* drafts folder that was not asked about.
C33_Witness ==
  /\ last.op = "GetMailFolders" /\ last.result = "ok"
  /\ Len(last.args[2]) = 2
  /\ last.args[2][1].ID = <<106, 117, 110, 107, 101, 109, 97, 105, 108>> /\ last.args[2][1].imapName = <<74, 117, 110, 107, 32, 69, 45, 109, 97, 105, 108>>
  /\ 1 \in last.args[3] /\ last.args[2][1].TotalItemCount = 3
  /\ last.args[2][2].ID = <<100, 114, 97, 102, 116, 115>> /\ 2 \notin last.args[3]
  /\ last.args[2][2].TotalItemCount = 0

\* Two names select the same folder on the server: mailbox names are
\* compared here without regard to case, as the most forgiving server does.
SameServerFolder(n1, n2) == ToLowerASCII(n1) = ToLowerASCII(n2)

\* C38: for every folder that the IMAP listing returns, GetMessages called
\* with the folder's id selects the folder that was listed:
\* MapFolderID(getRestAPIFolderID(name)) names the folder called name.
C38_ListedFolderSelectable ==
  (last.op = "GetMailFolders" /\ last.result = "ok") =>
    \A i \in 1..Len(last.args[2]) :
      SameServerFolder(MapFolderID(last.args[2][i].ID), last.args[2][i].imapName)

\* The folder listed as "Junk E-mail" got the id junkemail, which GetMessages
\* maps to "Junk".
C38_JunkEmailBecomesJunk ==
  /\ last.op = "GetMailFolders" /\ last.result = "ok"
  /\ \E i \in 1..Len(last.args[2]) :
       /\ last.args[2][i].imapName = <<74, 117, 110, 107, 32, 69, 45, 109, 97, 105, 108>>
       /\ MapFolderID(last.args[2][i].ID) = <<74, 117, 110, 107>>

\* The UID of a FETCH response of the server, read where the parser looks
\* for it: "* n FETCH (UID u" at the start of the response.
ServerUID(piece) == IF uidReAt(piece, 1).found THEN uidReAt(piece, 1).text ELSE <<>>

\* C32: every message that the IMAP message list returns has a non-empty
\* identifier, the one of its own FETCH response: the returned messages
\* stand for different FETCH responses of the server, each with the UID of
\* its response, and a response without UID adds no message.
C32_IdentifierFromOwnBlock ==
  last.op = "parseMessages" =>
    LET pieces == last.args[1]
        messages == last.args[2]
    IN /\ \A i \in 1..Len(messages) : messages[i].ID # <<>>
       /\ \E f \in [1..Len(messages) -> 1..Len(pieces)] :
            /\ \A i, j \in 1..Len(messages) : i # j => f[i] # f[j]
            /\ \A i \in 1..Len(messages) : ServerUID(pieces[f[i]]) = messages[i].ID

\* A subject that holds "* 9 FETCH (UID 99" has put a message with the
\* identifier 99 on the list, next to the message the subject belongs to.
C32_ForgedMessage ==
  /\ last.op = "parseMessages"
  /\ Len(last.args[1]) = 1
  /\ Len(last.args[2]) = 2
  /\ last.args[2][1].ID = <<57, 57>>
  /\ last.args[2][1].From.Address = <<98, 64, 120, 46, 105, 111>>
  /\ last.args[2][2].ID = <<49, 49>>

\* A response without UID next to two well-formed ones: two messages.
C32_BlockWithoutUIDSkipped ==
  /\ last.op = "parseMessages"
  /\ Len(last.args[1]) = 3
  /\ uidRe(last.args[1][1]).found /\ uidRe(last.args[1][3]).found
  /\ Index(last.args[1][2], FetchWord) # -1 /\ ServerUID(last.args[1][2]) = <<>>
  /\ Len(last.args[2]) = 2

\* The UIDs of the FETCH responses of the server, in the order of the response.
RECURSIVE ServerUIDs(_)
ServerUIDs(pieces) ==
  IF pieces = <<>> THEN <<>>
  ELSE IF ServerUID(Head(pieces)) # <<>>
       THEN <<ServerUID(Head(pieces))>> \o ServerUIDs(Tail(pieces))
       ELSE ServerUIDs(Tail(pieces))

\* C34: the IMAP message list is returned newest first: the messages of the
\* FETCH responses stand in the result in the reverse of the order in which
\* the server sent the responses.
C34_NewestFirst ==
  last.op = "parseMessages" =>
    LET sent == ServerUIDs(last.args[1])
        FromResponse(m) == \E k \in 1..Len(sent) : sent[k] = m.ID
        returned == SelectSeq(last.args[2], FromResponse)
    IN [i \in 1..Len(returned) |-> returned[i].ID] = Reverse(sent)

\* The responses for UID 7, 8 and 10 came in this order and the result
\* holds 10, 8, 7.
C34_Witness ==
  /\ last.op = "parseMessages"
  /\ ServerUIDs(last.args[1]) = <<<<55>>, <<56>>, <<49, 48>>>>
  /\ [i \in 1..Len(last.args[2]) |-> last.args[2][i].ID] = <<<<49, 48>>, <<56>>, <<55>>>>

\* C35: GetAttachments on an account marked "imap" returns the empty list
\* and asks for no token and calls neither transport; on any account it
\* leaves the marker as it was and never touches IMAP: no IMAP-scope token,
\* no connection, no command, no event.
C35_AttachmentsNeverUseIMAP ==
  last.op = "GetAttachments" =>
    /\ last.marker0 = "imap" => (last.result = "empty" /\ last.log = EmptyLog)
    /\ accounts[last.acct].Protocol = last.marker0
    /\ ~IMAPScopeRequested
    /\ \A f \in Refreshes : f.scope = "rest"
    /\ IMAPEvents = {} /\ Sockets = {}
    /\ last.log.emitted = 0

\* The attachments of a marked account were asked for.
C35_Witness ==
  /\ last.op = "GetAttachments"
  /\ last.marker0 = "imap"
  /\ last.result = "empty"

\* On an unmarked account both REST attempts failed: the list is empty and
\* the account is still unmarked.
C35_FailedRESTStaysUnmarked ==
  /\ last.op = "GetAttachments"
  /\ last.marker0 = ""
  /\ Len(RestCalls) = 2 /\ RestCalls[2] # "ok"
  /\ last.result = "empty"
  /\ accounts[last.acct].Protocol = ""

\* C36: a token handed out for the REST scope was issued by a REST-scope
\* refresh and a token handed out for the IMAP scope by an IMAP-scope
\* refresh, whatever calls came before.
C36_TokenOfOwnScope ==
  \A r \in TokenReqs : r.token # NoToken => r.token.scope = r.scope

\* getToken has returned, from the persisted row, a token that an
\* IMAP-scope refresh had stored there.
C36_IMAPTokenForREST ==
  \E r \in TokenReqs :
    /\ r.scope = "rest" /\ r.src = "persisted"
    /\ r.token.scope = "imap"
    /\ tokens[last.acct].present /\ tokens[last.acct].token.scope = "imap"

\* C37: the stored refresh token, not empty at the start, is never empty
\* after successful refreshes: a response without a rotated refresh token
\* leaves the stored one as it was.
C37_RefreshSecretKept ==
  /\ \A a \in Accounts : accounts[a].RefreshToken # ""
  /\ (last.op = "refresh" /\ last.args[1] = "") =>
       accounts[last.acct].RefreshToken = last.args[2]

\* A successful refresh whose response had no refresh token has emptied
\* the stored one.
C37_SecretErased ==
  /\ last.op = "refresh" /\ last.result = "ok"
  /\ last.args[1] = "" /\ last.args[2] # ""
  /\ accounts[last.acct].RefreshToken = ""
  /\ accounts[last.acct].AccessToken # NoToken

\* The sequence numbers of a range.
Covered(range) == IF range = <<0, 0>> THEN {} ELSE range[1]..range[2]

\* C39: for a mailbox of `total` messages and pages of 20, the ranges of
\* pages 0, 1, 2, .. are disjoint, each ends right below the start of the
\* page before, every page but the last non-empty one has 20 numbers, the
\* pages after it are empty, and together they cover exactly 1..total.
C39_PagesTileMailbox ==
  last.op = "pages" =>
    LET total == last.args[1]
        ranges == last.args[2]
        n == Len(ranges)
    IN /\ \A p, q \in 1..n : p # q => Covered(ranges[p]) \cap Covered(ranges[q]) = {}
       /\ (n >= 1 /\ total >= 1) => ranges[1][2] = total
       /\ \A p \in 1..(n - 1) :
            IF Covered(ranges[p + 1]) # {}
            THEN /\ ranges[p + 1][2] = ranges[p][1] - 1
                 /\ Cardinality(Covered(ranges[p])) = PageSize
            ELSE \A q \in (p + 1)..n : Covered(ranges[q]) = {}
       /\ UNION {Covered(ranges[p]) : p \in 1..n} \subseteq 1..total
       /\ (n * PageSize >= total) => UNION {Covered(ranges[p]) : p \in 1..n} = 1..total

\* 45 messages: the pages are 26..45, 6..25, 1..5 and an empty fourth page.
C39_Witness ==
  /\ last.op = "pages"
  /\ last.args[1] = 45
  /\ last.args[2] = <<(<<26, 45>>), (<<6, 25>>), (<<1, 5>>), (<<0, 0>>)>>

\* Positions where a goroutine is inside a storage call (GetByID, UpdateToken,
\* UpdateStatus) or a remote refresh call.
SlowSteps == {"GetByID", "refresh", "failed", "UpdateToken", "UpdateStatus"}
\* Positions where a goroutine asks for or holds the pool lock.
PoolSteps == {"lock", "getClient"}
\* Positions between taking tokenMu and releasing it: the next step of each
\* is the map access followed by the unlock, with no guard.
CacheSteps == {"cache", "locked", "clearing"}

\* C40: tokenMu is held only across the cache map access, never in a storage
\* call, a remote refresh or at the pool lock; the holder of poolMu never
\* holds or waits for tokenMu; so a goroutine inside a slow step leaves a
\* waiting cache lookup free to take the read lock, and every lock holder's
\* next step releases its lock without waiting (no deadlock).
C40_LocksNeverNested ==
  /\ \A p \in Procs : procs[p].holds # "" => procs[p].pc \in CacheSteps
  /\ \A p \in Procs : procs[p].pc \in SlowSteps \cup PoolSteps => procs[p].holds = ""
  /\ \A p \in Procs : poolMu = p => procs[p].pc = "getClient" /\ procs[p].holds = ""
  /\ \A p, q \in Procs :
       p # q /\ procs[p].pc \in SlowSteps /\ procs[q].pc = "RLock" => CanRLock
  /\ \A p, q \in Procs :
       procs[p].holds = "W" /\ p # q => procs[q].holds = ""

\* One goroutine is inside the remote refresh while another holds the read
\* lock for its cache lookup.
C40_LookupDuringRefresh ==
  \E p, q \in Procs : procs[p].pc = "refresh" /\ procs[q].pc = "cache" /\ procs[q].holds = "R"

\* One goroutine holds the pool lock while another holds the cache lock.
C40_BothLocksHeld ==
  \E p, q \in Procs : poolMu = p /\ procs[q].holds = "W"
====
